---- MODULE Spec2Model ----
(***************************************************************************)
(* Unit-of-work engine of the persistence layer:                           *)
(* SubjectOperationExecutor.execute() run against a QueryRunner.           *)
(*                                                                         *)
(* One execute() call is an asynchronous function.  Every await is a point *)
(* where the call is suspended; the model has one action per continuation  *)
(* (the code that runs, synchronously, when the awaited promise settles).  *)
(* Statements handed to the query runner are in flight until the runner    *)
(* resolves or rejects them, in any order.                                 *)
(*                                                                         *)
(* Values: 0 stands for undefined/null (every falsy value of the source).  *)
(***************************************************************************)
EXTENDS Integers, Sequences, FiniteSets, TLC

\* largest number of subjects handed to one execute() call
MaxSubjects == 2

VARIABLES
    batch,      \* the subjects handed to execute(), in order (never reassigned)
    txActive,   \* databaseConnection.isTransactionActive
    pc,         \* where the execute() call is suspended
    isTransactionStartedByItself,
    error,      \* the error execute() rejected with ("" while none)
    pending,    \* the error caught by the catch block while rollback is awaited
    calls,      \* every collaborator call issued so far, in issue order
    inflight,   \* indices (into calls) of the statements not yet settled
    subject,    \* per subject: the fields filled in during execute()
    entity,     \* per subject: the caller-owned entity object
    nextId,     \* next auto-increment value the database hands out
    closureTable, \* rows (ancestor, descendant, level) of the closure table
    failed,     \* indices (into calls) of the calls the query runner rejected
    returned,   \* pairs <<n, id>>: the id the database reported for insert n
    joined,     \* what isTransactionActive() answered at line 106
    idWrites,   \* per subject: number of assignments to newlyGeneratedId
    \* WebsqlQueryRunner
    isReleased,      \* WebsqlQueryRunner.isReleased
    releaseCallback, \* databaseConnection.releaseCallback is set
    runnerCalls,     \* the calls made on the query runner, with their outcome
    queries,         \* number of statements handed to the database
    \* overlapping execute() calls on one query runner
    executions,      \* per call: where it is suspended and its ownership flag
    \* Connection
    isConnected,     \* Connection._isConnected
    driverConnected, \* the driver holds a database connection
    connecting,      \* where the connect() or close() call in progress is suspended
    connectionCalls  \* the connect() and close() calls made, with their outcome

\* the state of one execute() call and of the database it works on
executorVars == <<batch, pc, isTransactionStartedByItself, error, pending,
                  calls, inflight, subject, entity, nextId, closureTable, failed,
                  returned, joined, idWrites>>
\* the state of a WebsqlQueryRunner besides databaseConnection.isTransactionActive
runnerVars == <<isReleased, releaseCallback, runnerCalls, queries>>
connectionVars == <<isConnected, driverConnected, connecting, connectionCalls>>

\* what one execute() call, taken alone, leaves untouched
outsideExecutor == <<runnerVars, executions, connectionVars>>

vars == <<batch, txActive, pc, isTransactionStartedByItself, error, pending,
          calls, inflight, subject, entity, nextId, closureTable, failed,
          returned, joined, idWrites, isReleased, releaseCallback, runnerCalls,
          queries, executions, isConnected, driverConnected, connecting,
          connectionCalls>>

-----------------------------------------------------------------------------
(* Entity metadata (read-only for the duration of execute()).              *)

Kinds == {"Post", "Detail", "Student", "Employee", "Category"}

\* Post     : generated id, nullable many-to-one to Category, version and
\*            date columns, owner of the many-to-many Post.categories
\* Detail   : generated id, NON-nullable many-to-one to Post
\* Student  : class-table child of Person; the Person table holds the
\*            generated id and the discriminator, the Student table the
\*            parent-id column
\* Employee : class-table child of Staff; the Staff table has a primary
\*            key the caller assigns (no generated column), the Employee
\*            table a generated column and the parent-id column
\* Category : closure-table tree with a level column; parent (many-to-one,
\*            nullable) and children (one-to-many inverse)
Metadata(kind) ==
    [ table                 |-> kind,
      parentTable           |-> CASE kind = "Student"  -> "Person"
                                  [] kind = "Employee" -> "Staff"
                                  [] OTHER             -> "",
      hasParent             |-> kind \in {"Student", "Employee"},
      isClassTableChild     |-> kind \in {"Student", "Employee"},
      hasParentIdColumn     |-> kind \in {"Student", "Employee"},
      hasIdColumn           |-> kind \notin {"Student", "Employee"},
      hasDiscriminatorColumn |-> kind \in {"Person", "Staff"},
      discriminatorValue    |-> CASE kind = "Student" -> 1
                                  [] kind = "Person"  -> 2
                                  [] kind = "Employee" -> 3
                                  [] kind = "Staff"   -> 4
                                  [] OTHER            -> 0,
      hasNonNullableColumns |-> kind = "Detail",
      hasGeneratedColumn    |-> kind # "Staff",
      hasObjectIdColumn     |-> FALSE,
      hasJoinColumn         |-> kind \in {"Post", "Detail", "Category"},
      hasInverseSide        |-> kind = "Category",
      relTarget             |-> CASE kind = "Post"     -> "Category"
                                  [] kind = "Detail"   -> "Post"
                                  [] kind = "Category" -> "Category"
                                  [] OTHER             -> "",
      isClosure             |-> kind = "Category",
      hasTreeLevelColumn    |-> kind = "Category",
      hasTreeParentRelation |-> kind = "Category",
      hasTreeChildrenRelation |-> kind = "Category",
      hasCreateDateColumn   |-> kind = "Post",
      hasUpdateDateColumn   |-> kind = "Post",
      hasVersionColumn      |-> kind = "Post",
      isManyToManyOwner     |-> kind = "Post",
      junctionTarget        |-> CASE kind = "Post"     -> "Category"
                                  [] kind = "Category" -> "Post"
                                  [] OTHER             -> "" ]

-----------------------------------------------------------------------------
(* Subjects.                                                               *)

\* a row / column-value map / condition map; 0 = column absent
NoRow ==
    [ id |-> 0, fk |-> 0, version |-> 0, createDate |-> 0, updateDate |-> 0,
      level |-> 0, parentId |-> 0, discriminator |-> 0, c1 |-> 0, c2 |-> 0,
      col |-> 0 ]

\* primary key of an entity that was persisted before this call
PersistedId(i) == 10 + i

\* primary key the caller assigned to a new entity without generated key
AssignedId(i) == 20 + i

BlankSubject(kind) ==
    [ kind |-> kind,
      mustBeInserted |-> FALSE, mustBeUpdated |-> FALSE,
      mustBeRemoved |-> FALSE, hasRelationUpdates |-> FALSE,
      hasEntity |-> TRUE, hasDatabaseEntity |-> FALSE,
      id |-> 0,            \* entity's primary key when handed in
      dbId |-> 0,          \* databaseEntity's primary key
      rel |-> 0,           \* entity's join-column relation value (a subject index)
      inv |-> {},          \* entity's inverse (one-to-many) relation value
      diffColumns |-> 0,   \* number of changed scalar columns
      diffRelations |-> 0, \* number of changed relations
      eventDiff |-> FALSE, \* a before-event handler reverts the changed column
      version |-> 0,       \* entity's version property when handed in
      level |-> 0,         \* entity's tree level when handed in
      date |-> 1,          \* subject.date
      junctionInserts |-> <<>>, \* junctionEntities of the one junction insert
      junctionRemoves |-> <<>>  \* junctionRelationIds of the one junction remove
    ]

Persisted(i, kind) ==
    [BlankSubject(kind) EXCEPT !.hasDatabaseEntity = TRUE, !.id = PersistedId(i),
                               !.dbId = PersistedId(i), !.version = 1, !.level = 1]

Others(i, n) == (1..n) \ {i}

\* the subjects position i of a batch of n subjects is drawn from
SubjectChoices(i, n) ==
    \* new entities
    { [BlankSubject(k) EXCEPT !.mustBeInserted = TRUE, !.rel = r] :
          k \in {"Post", "Category"}, r \in {0} \cup Others(i, n) }
    \cup { [BlankSubject("Detail") EXCEPT !.mustBeInserted = TRUE, !.rel = r] :
          r \in Others(i, n) }
    \cup { [BlankSubject("Student") EXCEPT !.mustBeInserted = TRUE] }
    \* a new Employee with the primary key the caller assigned
    \cup { [BlankSubject("Employee") EXCEPT !.mustBeInserted = TRUE,
                                            !.id = AssignedId(i)] }
    \* a new Post with the primary key the caller assigned
    \cup { [BlankSubject("Post") EXCEPT !.mustBeInserted = TRUE,
                                        !.id = AssignedId(i)] }
    \* a new Post bound to a Category through the junction table
    \cup { [BlankSubject("Post") EXCEPT !.mustBeInserted = TRUE,
                                        !.junctionInserts = <<r>>] :
          r \in Others(i, n) }
    \* a new Category listed in its parent's children only
    \cup { [BlankSubject("Category") EXCEPT !.mustBeInserted = TRUE, !.inv = {c}] :
          c \in Others(i, n) }
    \* loaded entities
    \cup { [Persisted(i, "Post") EXCEPT !.mustBeUpdated = TRUE, !.diffColumns = 1,
                                        !.eventDiff = ev] :
          ev \in BOOLEAN }
    \cup { [Persisted(i, k) EXCEPT !.mustBeRemoved = TRUE] : k \in {"Post", "Student"} }
    \cup { [Persisted(i, "Post") EXCEPT !.hasRelationUpdates = TRUE, !.rel = r] :
          r \in Others(i, n) }
    \cup { [Persisted(i, "Post") EXCEPT !.junctionInserts = <<r>>] : r \in Others(i, n) }
    \cup { [Persisted(i, "Post") EXCEPT !.junctionRemoves = <<PersistedId(0)>>] }
    \* a loaded entity on the inverse side of the many-to-many relation
    \cup { [Persisted(i, "Category") EXCEPT !.junctionInserts = <<r>>] :
          r \in Others(i, n) }
    \* entities that were never persisted and that no cascade inserts: one
    \* bound to others, one that others may be bound to
    \cup { [BlankSubject("Post") EXCEPT !.junctionInserts = <<r>>] : r \in Others(i, n) }
    \cup { BlankSubject("Category") }
    \* a loaded tree entity: a root, or the child of a root outside the batch
    \cup { [Persisted(i, "Category") EXCEPT !.level = l] : l \in {1, 2} }
    \* a loaded tree entity whose children are a new entity of the call, or
    \* a loaded entity that is no subject of the call (0)
    \cup { [Persisted(i, "Category") EXCEPT !.inv = {c}] : c \in {0} \cup Others(i, n) }
    \* corrupted state: a changed Post whose key property was cleared after
    \* loading, and a Post whose database snapshot lacks the key
    \cup { [Persisted(i, "Post") EXCEPT !.mustBeUpdated = TRUE, !.diffColumns = 1,
                                        !.id = 0] }
    \cup { [Persisted(i, "Post") EXCEPT !.hasRelationUpdates = TRUE, !.rel = r,
                                        !.dbId = 0] :
          r \in Others(i, n) }
    \* a remove subject known from the database only
    \cup { [Persisted(i, "Post") EXCEPT !.mustBeRemoved = TRUE, !.hasEntity = FALSE,
                                        !.id = 0, !.version = 0, !.level = 0] }
    \* a remove subject with neither entity nor database entity
    \cup { [BlankSubject("Post") EXCEPT !.mustBeRemoved = TRUE, !.hasEntity = FALSE] }

\* relation values point at entities of the relation's target type
WellTyped(b) ==
    \A i \in 1..Len(b) :
        /\ b[i].rel # 0 => b[b[i].rel].kind = Metadata(b[i].kind).relTarget
        /\ \A c \in b[i].inv \ {0} : b[c].kind = "Category" /\ b[c].mustBeInserted
        /\ \A k \in 1..Len(b[i].junctionInserts) :
               b[b[i].junctionInserts[k]].kind = Metadata(b[i].kind).junctionTarget

Batches ==
    { b \in UNION { [1..n -> UNION { SubjectChoices(i, n) : i \in 1..n }] : n \in 0..MaxSubjects } :
        /\ \A i \in 1..Len(b) : b[i] \in SubjectChoices(i, Len(b))
        /\ WellTyped(b) }

-----------------------------------------------------------------------------
(* Subject.validate(): a subject's classification is consistent and it     *)
(* carries what its classification needs.                                  *)
validate(s) ==
    /\ ~(s.mustBeInserted /\ s.mustBeRemoved)
    /\ ~(s.mustBeUpdated /\ s.mustBeRemoved)
    /\ ~(s.mustBeInserted /\ s.mustBeUpdated)
    /\ (s.mustBeInserted \/ s.mustBeUpdated) => s.hasEntity
    /\ s.mustBeRemoved => (s.hasEntity \/ s.hasDatabaseEntity)

\* the closure table before the call: every loaded tree entity has its self
\* row and, when it is a child, the row of its parent
PersistedClosureRows(b) ==
    LET loaded == { j \in 1..Len(b) :
                      Metadata(b[j].kind).isClosure /\ b[j].hasDatabaseEntity }
    IN  { [ancestor |-> b[i].id, descendant |-> b[i].id, level |-> 1] : i \in loaded }
        \cup { [ancestor |-> PersistedId(0), descendant |-> b[i].id, level |-> 2] :
                  i \in { j \in loaded : b[j].level = 2 } }

\* the query runner, the overlapping calls and the connection while the
\* model follows something else
RunnerUnused ==
    isReleased = FALSE /\ releaseCallback = FALSE /\ runnerCalls = <<>> /\ queries = 0
NoExecutions == executions = <<>>
ConnectionUnused ==
    /\ isConnected = FALSE /\ driverConnected = FALSE
    /\ connecting = "" /\ connectionCalls = <<>>

Init ==
    /\ batch \in Batches
    /\ txActive \in BOOLEAN
    /\ pc = "start"
    /\ isTransactionStartedByItself = FALSE
    /\ error = ""
    /\ pending = ""
    /\ calls = <<>>
    /\ inflight = {}
    /\ subject = [i \in 1..Len(batch) |->
                    [ newlyGeneratedId |-> 0, generatedObjectId |-> 0,
                      parentGeneratedId |-> 0, treeLevel |-> 0,
                      diffColumns |-> batch[i].diffColumns,
                      diffRelations |-> batch[i].diffRelations ]]
    /\ entity = [i \in 1..Len(batch) |->
                    [ id |-> batch[i].id, version |-> batch[i].version,
                      createDate |-> 0, updateDate |-> 0,
                      level |-> batch[i].level ]]
    /\ nextId = 1
    /\ closureTable = PersistedClosureRows(batch)
    /\ failed = {}
    /\ returned = {}
    /\ joined = FALSE
    /\ idWrites = [i \in 1..Len(batch) |-> 0]
    /\ RunnerUnused /\ NoExecutions /\ ConnectionUnused

-----------------------------------------------------------------------------
(* Helpers.                                                                *)

Indices == [i \in 1..Len(batch) |-> i]

\* Array.prototype.find over subject indices: the first match, 0 if none
Find(S) == IF S = {} THEN 0 ELSE CHOOSE i \in S : \A j \in S : i <= j

Map(seq, F(_)) == [k \in 1..Len(seq) |-> F(seq[k])]

RECURSIVE Flatten(_)
Flatten(seqs) ==
    IF seqs = <<>> THEN <<>> ELSE Head(seqs) \o Flatten(Tail(seqs))

Range(seq) == { seq[k] : k \in 1..Len(seq) }

\* a call of a collaborator that is not a statement of a phase
Call(op) ==
    [ op |-> op, phase |-> 0, table |-> "", subj |-> 0, cont |-> "",
      already |-> FALSE, local |-> 0, gen |-> FALSE, vals |-> NoRow,
      cond |-> NoRow ]

\* a statement handed to the query runner; cont names the code that runs
\* when it resolves, gen is the call's last argument (a generated column
\* is passed to insert, hasLevel to insertIntoClosureTable), local the value
\* of the awaiting function's local variable
Stmt(op, phase, table, subj, cont, vals, cond) ==
    [ op |-> op, phase |-> phase, table |-> table, subj |-> subj,
      cont |-> cont, already |-> FALSE, local |-> 0, gen |-> FALSE,
      vals |-> vals, cond |-> cond ]

\* execute(), lines 82-86
insertSubjects == SelectSeq(Indices, LAMBDA i : batch[i].mustBeInserted)
updateSubjects == SelectSeq(Indices, LAMBDA i : batch[i].mustBeUpdated)
removeSubjects == SelectSeq(Indices, LAMBDA i : batch[i].mustBeRemoved)
relationUpdateSubjects == SelectSeq(Indices, LAMBDA i : batch[i].hasRelationUpdates)

\* faulty variant: the subjects are not validated
subjectsValidUnchecked == TRUE

\* execute(), line 79
subjectsValid == \A i \in 1..Len(batch) : validate(batch[i])

\* faulty variant: no early return
nothingToExecuteNever == FALSE

\* execute(), lines 89-94
nothingToExecute ==
    /\ Len(insertSubjects) = 0
    /\ Len(updateSubjects) = 0
    /\ Len(removeSubjects) = 0
    /\ Len(relationUpdateSubjects) = 0
    /\ \A i \in 1..Len(batch) : Len(batch[i].junctionInserts) = 0
    /\ \A i \in 1..Len(batch) : Len(batch[i].junctionRemoves) = 0

\* faulty variants: the catch block rolls back whoever opened the transaction, or never
mustRollbackAlways == TRUE
mustRollbackNever == FALSE

\* execute(), line 139: the catch block rolls back
mustRollback == isTransactionStartedByItself

\* faulty variant: a transaction is taken to be active already
isTransactionActiveAlways == TRUE

\* execute(), line 106: queryRunner.isTransactionActive()
isTransactionActive == txActive

\* faulty variant: the transaction is left open
mustCommitNever == FALSE

\* execute(), lines 126-127: the call commits
mustCommit == isTransactionStartedByItself = TRUE

\* faulty variant: the promise of a phase is not awaited
allResolvedNoWait == TRUE

\* every promise handed to the awaited Promise.all has resolved
allResolved == inflight = {}

\* execute(), lines 136-148, together with the bookkeeping of every step:
\* the statements in settled have settled, newCalls are issued, and the
\* step either throws (thrown # "") into the catch block or moves to nextPc
Advance(settled, newCalls, thrown, nextPc) ==
    LET base == Len(calls)
        stmts == { base + k : k \in { j \in 1..Len(newCalls) : newCalls[j].phase > 0 } }
        rollback == thrown # "" /\ mustRollback
    IN  /\ calls' = calls \o newCalls \o
                    (IF rollback THEN <<Call("rollbackTransaction")>> ELSE <<>>)
        /\ inflight' = (inflight \ settled) \cup stmts
        /\ pc' = IF thrown = "" THEN nextPc
                 ELSE IF rollback THEN "rollback" ELSE "rejected"
        /\ pending' = IF rollback THEN thrown ELSE pending
        /\ error' = IF thrown # "" /\ ~rollback THEN thrown ELSE error

-----------------------------------------------------------------------------
(* Insert phase.                                                           *)

\* faulty variant: the insert subjects are not split into two groups
insertSubjectsUnsplit == insertSubjects

\* executeInsertOperations(), lines 182 and 187
firstInsertSubjects ==
    SelectSeq(insertSubjects, LAMBDA i : ~Metadata(batch[i].kind).hasNonNullableColumns)
secondInsertSubjects ==
    SelectSeq(insertSubjects, LAMBDA i : Metadata(batch[i].kind).hasNonNullableColumns)

\* faulty variant: the second group is inserted without the first group's results
alreadyInsertedNone(second) == {}

\* the alreadyInsertedSubjects argument of insert(): [] for the first group
\* (line 191), firstInsertSubjects for the second (line 192)
alreadyInserted(second) == IF second THEN Range(firstInsertSubjects) ELSE {}

\* the value a join-column relation is inserted with, lines 496-552
relationValueOf(md, i, alreadyInsertedSubjects) ==
    LET value == IF md.hasJoinColumn THEN batch[i].rel ELSE 0
    IN  IF value # 0
        THEN LET relationId == entity[value].id
                 referenced == Metadata(batch[value].kind)
             IN  IF value \in alreadyInsertedSubjects
                 THEN IF referenced.hasObjectIdColumn
                      THEN subject[value].generatedObjectId
                      ELSE IF referenced.hasGeneratedColumn
                      THEN subject[value].newlyGeneratedId
                      ELSE relationId
                 ELSE relationId
        ELSE IF md.hasJoinColumn /\ md.hasInverseSide
        THEN LET inverseSubject ==
                     Find({ s \in 1..Len(batch) :
                              /\ batch[s].hasEntity
                              /\ batch[s].kind = md.relTarget
                              /\ batch[s].inv # {} })
             IN  IF inverseSubject # 0 THEN entity[inverseSubject].id ELSE 0
        ELSE 0

\* collectColumnsAndValues(), lines 448-608
collectColumnsAndValues(md, i, parentIdColumnValue, discriminatorValue, alreadyInsertedSubjects) ==
    LET parentEntity == batch[i].rel
        parentLevel == IF parentEntity # 0 THEN entity[parentEntity].level ELSE 0
    IN  [ NoRow EXCEPT
            !.id = IF md.hasIdColumn THEN entity[i].id ELSE 0,
            !.fk = relationValueOf(md, i, alreadyInsertedSubjects),
            !.createDate = IF md.hasCreateDateColumn THEN batch[i].date ELSE 0,
            !.updateDate = IF md.hasUpdateDateColumn THEN batch[i].date ELSE 0,
            !.version = IF md.hasVersionColumn THEN 1 ELSE 0,
            !.discriminator =
                IF md.hasDiscriminatorColumn
                THEN (IF discriminatorValue # 0 THEN discriminatorValue
                      ELSE md.discriminatorValue)
                ELSE 0,
            !.level = IF md.hasTreeLevelColumn /\ md.hasTreeParentRelation
                      THEN parentLevel + 1 ELSE 0,
            !.parentId = IF md.hasParent /\ md.hasParentIdColumn
                         THEN (IF parentIdColumnValue # 0 THEN parentIdColumnValue
                               ELSE entity[i].id)
                         ELSE 0 ]

\* insert(), lines 405-428 up to its first await: the statement it issues
insert(i, second) ==
    LET metadata == Metadata(batch[i].kind)
        parentEntityMetadata == Metadata(metadata.parentTable)
    IN  IF metadata.isClassTableChild
        THEN [ Stmt("insert", 1, parentEntityMetadata.table, i, "insertParent",
                    collectColumnsAndValues(parentEntityMetadata, i, 0,
                        metadata.discriminatorValue, alreadyInserted(second)),
                    NoRow)
               EXCEPT !.already = second, !.gen = parentEntityMetadata.hasGeneratedColumn ]
        ELSE [ Stmt("insert", 1, metadata.table, i, "insert",
                    collectColumnsAndValues(metadata, i, 0, 0, alreadyInserted(second)),
                    NoRow)
               EXCEPT !.already = second, !.gen = metadata.hasGeneratedColumn ]

\* insert(), lines 419-421: the child-table insert of a class-table child
\* faulty variant: the child-table insert does not receive the parent's id
insertChildWithoutParentId(i, second, newlyGeneratedId) ==
    LET metadata == Metadata(batch[i].kind)
    IN  [ Stmt("insert", 1, metadata.table, i, "insertChild",
               collectColumnsAndValues(metadata, i, 0, 0,
                                       alreadyInserted(second)),
               NoRow)
          EXCEPT !.already = second, !.gen = metadata.hasGeneratedColumn,
                 !.local = newlyGeneratedId ]

insertChild(i, second, newlyGeneratedId) ==
    LET metadata == Metadata(batch[i].kind)
    IN  [ Stmt("insert", 1, metadata.table, i, "insertChild",
               collectColumnsAndValues(metadata, i, newlyGeneratedId, 0,
                                       alreadyInserted(second)),
               NoRow)
          EXCEPT !.already = second, !.gen = metadata.hasGeneratedColumn,
                 !.local = newlyGeneratedId ]

\* faulty variant: the generated ids are dropped
withoutGeneratedIds(i, newlyGeneratedId, parentGeneratedId) == subject[i]

\* insert(), lines 430-442: the subject after its insert(s) resolved
withGeneratedIds(i, newlyGeneratedId, parentGeneratedId) ==
    LET metadata == Metadata(batch[i].kind)
        s1 == IF parentGeneratedId # 0
              THEN [subject[i] EXCEPT !.parentGeneratedId = parentGeneratedId]
              ELSE subject[i]
    IN  IF newlyGeneratedId # 0
        THEN IF metadata.hasGeneratedColumn
             THEN [s1 EXCEPT !.newlyGeneratedId = newlyGeneratedId]
             ELSE IF metadata.hasObjectIdColumn
             THEN [s1 EXCEPT !.generatedObjectId = newlyGeneratedId]
             ELSE s1
        ELSE s1

\* insert(), lines 434-436: subject.newlyGeneratedId is assigned
assignsNewlyGeneratedId(i, newlyGeneratedId) ==
    newlyGeneratedId # 0 /\ Metadata(batch[i].kind).hasGeneratedColumn

\* the id the database reports for an insert (result["insertId"]); nothing
\* is reported unless a generated column was passed
\* faulty variant: the database numbers the row itself whatever key the
\* statement carries
insertIdOfCounter(c) == IF ~c.gen THEN 0 ELSE nextId

insertId(c) ==
    IF ~c.gen THEN 0
    ELSE IF c.vals.id # 0 THEN c.vals.id
    ELSE IF c.vals.parentId # 0 THEN c.vals.parentId
    ELSE nextId

\* ascending sequence of a set of subject indices
RECURSIVE SetToSeq(_)
SetToSeq(S) ==
    IF S = {} THEN <<>> ELSE <<Find(S)>> \o SetToSeq(S \ {Find(S)})

\* executeInsertOperations(), lines 202-317: the update that sets the
\* join-column relation of a first-group subject once its target is inserted
\* faulty variant: the relation id is read from the related entity only,
\* the id its insert generated is not consulted
updateOfJoinColumnFromEntity(i) ==
    LET metadata == Metadata(batch[i].kind)
        relatedEntity == IF metadata.hasJoinColumn THEN batch[i].rel ELSE 0
        relationId ==
            IF relatedEntity # 0 /\ batch[relatedEntity].mustBeInserted
            THEN entity[relatedEntity].id ELSE 0
        condition ==
            IF entity[i].id # 0 THEN entity[i].id
            ELSE IF subject[i].newlyGeneratedId # 0 THEN subject[i].newlyGeneratedId
            ELSE subject[i].generatedObjectId
    IN  [ wanted |-> relationId # 0,
          skipped |-> relationId # 0 /\ condition = 0,
          stmt |-> Stmt("update", 1, metadata.table, i, "none",
                        [NoRow EXCEPT !.fk = relationId],
                        [NoRow EXCEPT !.id = condition]) ]

updateOfJoinColumn(i) ==
    LET metadata == Metadata(batch[i].kind)
        relatedEntity == IF metadata.hasJoinColumn THEN batch[i].rel ELSE 0
        referenced == Metadata(batch[relatedEntity].kind)
        relationId ==
            IF relatedEntity # 0 /\ batch[relatedEntity].mustBeInserted
            THEN IF entity[relatedEntity].id # 0 THEN entity[relatedEntity].id
                 ELSE IF referenced.hasGeneratedColumn
                 THEN subject[relatedEntity].newlyGeneratedId
                 ELSE IF referenced.hasObjectIdColumn
                 THEN subject[relatedEntity].generatedObjectId
                 ELSE 0
            ELSE 0
        condition ==
            IF entity[i].id # 0 THEN entity[i].id
            ELSE IF subject[i].newlyGeneratedId # 0 THEN subject[i].newlyGeneratedId
            ELSE subject[i].generatedObjectId
    IN  [ wanted |-> relationId # 0,
          skipped |-> relationId # 0 /\ condition = 0,      \* line 312: return
          stmt |-> Stmt("update", 1, metadata.table, i, "none",
                        [NoRow EXCEPT !.fk = relationId],
                        [NoRow EXCEPT !.id = condition]) ]

\* executeInsertOperations(), lines 321-391: the update of the row of one
\* entity found in the inverse (one-to-many) relation of subject i
updateOfInverseSide(i, subRelatedEntity) ==
    LET inverseEntityMetadata == Metadata(batch[subRelatedEntity].kind)
        entityValueInsertSubject ==
            IF batch[subRelatedEntity].mustBeInserted THEN subRelatedEntity ELSE 0
        condition ==
            IF entity[subRelatedEntity].id # 0 THEN entity[subRelatedEntity].id
            ELSE IF entityValueInsertSubject # 0
            THEN (IF subject[subRelatedEntity].newlyGeneratedId # 0
                  THEN subject[subRelatedEntity].newlyGeneratedId
                  ELSE subject[subRelatedEntity].generatedObjectId)
            ELSE 0
        id == IF entity[i].id # 0 THEN entity[i].id ELSE subject[i].newlyGeneratedId
    IN  IF condition = 0 THEN <<>>
        ELSE << Stmt("update", 1, inverseEntityMetadata.table, subRelatedEntity, "none",
                     [NoRow EXCEPT !.fk = id], [NoRow EXCEPT !.id = condition]) >>

\* executeInsertOperations(), lines 201-393: updatePromises
updatePromises ==
    Flatten(Map(firstInsertSubjects, LAMBDA i :
        LET first == updateOfJoinColumn(i)
        IN  IF first.skipped THEN <<>>
            ELSE (IF first.wanted THEN <<first.stmt>> ELSE <<>>)
                 \o Flatten(Map(SetToSeq(batch[i].inv),
                                LAMBDA c : updateOfInverseSide(i, c)))))

-----------------------------------------------------------------------------
(* Closure-table phase.                                                    *)

\* insertClosureTableValues(), lines 631-673: the insertIntoClosureTable call
insertClosureTableValues(i) ==
    LET metadata == Metadata(batch[i].kind)
        newEntityId == IF entity[i].id # 0 THEN entity[i].id
                       ELSE IF metadata.hasGeneratedColumn
                       THEN subject[i].newlyGeneratedId ELSE 0
        parentEntity == batch[i].rel
        fromParent ==
            IF parentEntity = 0 THEN 0
            ELSE IF entity[parentEntity].id # 0 THEN entity[parentEntity].id
            ELSE IF metadata.hasGeneratedColumn
            THEN subject[parentEntity].newlyGeneratedId
            ELSE 0
        parentSubject ==
            Find({ a \in 1..Len(batch) :
                     /\ batch[a].hasEntity
                     /\ Metadata(batch[a].kind).isClosure
                     /\ Metadata(batch[a].kind).hasTreeChildrenRelation
                     /\ i \in batch[a].inv })
        parentEntityId ==
            IF fromParent # 0 THEN fromParent
            ELSE IF parentSubject = 0 THEN 0
            ELSE IF entity[parentSubject].id # 0 THEN entity[parentSubject].id
            ELSE subject[parentSubject].newlyGeneratedId
    IN  [ Stmt("insertIntoClosureTable", 2, "category_closure", i, "closure",
               [NoRow EXCEPT !.c1 = newEntityId, !.c2 = parentEntityId], NoRow)
          EXCEPT !.gen = metadata.hasTreeLevelColumn ]

\* executeInsertClosureTableOperations(), lines 617-626
closurePromises ==
    Map(SelectSeq(insertSubjects, LAMBDA i : Metadata(batch[i].kind).isClosure),
        insertClosureTableValues)

\* faulty variant: only the self row is inserted
closureRowsSelfOnly(newEntityId, parentId, hasLevel) ==
    { [ancestor |-> newEntityId, descendant |-> newEntityId,
       level |-> IF hasLevel THEN 1 ELSE 0] }

\* WebsqlQueryRunner.insertIntoClosureTable(), lines 244-254: the rows added
closureRows(newEntityId, parentId, hasLevel) ==
    { [ancestor |-> r.ancestor, descendant |-> newEntityId,
       level |-> IF hasLevel THEN r.level + 1 ELSE 0] :
          r \in { q \in closureTable : q.descendant = parentId } }
    \cup { [ancestor |-> newEntityId, descendant |-> newEntityId,
            level |-> IF hasLevel THEN 1 ELSE 0] }

Max(S) == CHOOSE x \in S : \A y \in S : y <= x

\* WebsqlQueryRunner.insertIntoClosureTable(), lines 255-256: the level returned
closureLevel(table, parentId) ==
    LET levels == { q.level : q \in { r \in table : r.descendant = parentId } }
    IN  IF levels # {} /\ Max(levels) # 0 THEN Max(levels) + 1 ELSE 1

\* faulty variant: the closure phase stores the level as the generated id too
withTreeLevelAsId(i, level) ==
    [subject[i] EXCEPT !.treeLevel = level, !.newlyGeneratedId = level]

\* insertClosureTableValues(), line 673: the subject once the closure rows
\* are written
withTreeLevel(i, level) == [subject[i] EXCEPT !.treeLevel = level]

\* insertClosureTableValues(), lines 675-678: the update of the level column
updateTreeLevel(c, level) ==
    Stmt("update", 2, Metadata(batch[c.subj].kind).table, c.subj, "none",
         [NoRow EXCEPT !.level = level], [NoRow EXCEPT !.id = c.vals.c1])

-----------------------------------------------------------------------------
(* Junction-table phases.                                                  *)

\* faulty variant: the subject's id always comes first
junctionValuesOwnFirst(isOwning, ownId, relationId) ==
    [NoRow EXCEPT !.c1 = ownId, !.c2 = relationId]

\* insertJunctions(), lines 923-924: the row of the junction table
junctionValues(isOwning, ownId, relationId) ==
    IF isOwning
    THEN [NoRow EXCEPT !.c1 = ownId, !.c2 = relationId]
    ELSE [NoRow EXCEPT !.c1 = relationId, !.c2 = ownId]

\* faulty variant: a junction insert with a missing id is skipped silently
insertJunctionsUnchecked(i) == [ thrown |-> FALSE, stmts |-> <<>> ]

\* faulty variant: the id of a bound entity inserted by the same call is
\* taken from the subject itself
insertJunctionsOwnIdTwice(i) ==
    LET relation == Metadata(batch[i].kind)
        ownId == IF entity[i].id # 0 THEN entity[i].id
                 ELSE subject[i].newlyGeneratedId
        relationIdOf(e) == IF entity[e].id # 0 THEN entity[e].id ELSE ownId
    IN  IF ownId = 0
        THEN [ thrown |-> TRUE, stmts |-> <<>> ]
        ELSE [ thrown |-> FALSE,
               stmts |-> Map(batch[i].junctionInserts, LAMBDA e :
                   Stmt("insert", 3, "post_categories", i, "none",
                        junctionValues(relation.isManyToManyOwner, ownId,
                                       relationIdOf(e)),
                        NoRow)) ]

\* insertJunctions(), lines 869-930: the inserts issued for subject i and
\* whether one of the two cascade errors was thrown
insertJunctions(i) ==
    LET relation == Metadata(batch[i].kind)
        isOwning == relation.isManyToManyOwner
        ownId == IF entity[i].id # 0 THEN entity[i].id
                 ELSE IF relation.hasGeneratedColumn THEN subject[i].newlyGeneratedId
                 ELSE IF relation.hasObjectIdColumn THEN subject[i].generatedObjectId
                 ELSE 0
        relationIdOf(e) ==
            IF entity[e].id # 0 THEN entity[e].id
            ELSE IF batch[e].mustBeInserted
            THEN (IF Metadata(batch[e].kind).hasGeneratedColumn
                  THEN subject[e].newlyGeneratedId
                  ELSE IF Metadata(batch[e].kind).hasObjectIdColumn
                  THEN subject[e].generatedObjectId
                  ELSE 0)
            ELSE 0
        entities == batch[i].junctionInserts
        unresolved == { k \in 1..Len(entities) : relationIdOf(entities[k]) = 0 }
        issued == IF unresolved = {} THEN entities
                  ELSE SubSeq(entities, 1, Find(unresolved) - 1)
    IN  IF ownId = 0
        THEN [ thrown |-> TRUE, stmts |-> <<>> ]
        ELSE [ thrown |-> unresolved # {},
               stmts |-> Map(issued, LAMBDA e :
                   Stmt("insert", 3, "post_categories", i, "none",
                        junctionValues(isOwning, ownId, relationIdOf(e)),
                        NoRow)) ]

\* executeInsertJunctionsOperations(), lines 855-864
junctionInsertSubjects ==
    SelectSeq(Indices, LAMBDA i : Len(batch[i].junctionInserts) > 0)

\* removeJunctions(), lines 953-967
removeJunctions(i) ==
    LET relation == Metadata(batch[i].kind)
        ownId == IF batch[i].hasEntity THEN entity[i].id ELSE batch[i].dbId
    IN  Map(batch[i].junctionRemoves, LAMBDA relationId :
            Stmt("delete", 4, "post_categories", i, "none", NoRow,
                 IF relation.isManyToManyOwner
                 THEN [NoRow EXCEPT !.c1 = ownId, !.c2 = relationId]
                 ELSE [NoRow EXCEPT !.c1 = relationId, !.c2 = ownId]))

\* executeRemoveJunctionsOperations(), lines 939-948
junctionRemoveSubjects ==
    SelectSeq(Indices, LAMBDA i : Len(batch[i].junctionRemoves) > 0)

-----------------------------------------------------------------------------
(* Update phases.                                                          *)

\* update(), lines 695-786: the statements issued for update subject i (one
\* per physical table with a value map) and whether the identity map was
\* missing; now is the value of new Date()
\* faulty variant: the version and update-date columns are written also
\* when no column and no relation changed
updateOfSpecialColumns(i, now) ==
    LET metadata == Metadata(batch[i].kind)
    IN  [ thrown |-> FALSE,
          stmts |-> << Stmt("update", 5, metadata.table, i, "none",
                            [ NoRow EXCEPT
                                !.updateDate = IF metadata.hasUpdateDateColumn
                                               THEN now ELSE 0,
                                !.version = IF metadata.hasVersionColumn
                                            THEN entity[i].version + 1 ELSE 0 ],
                            [NoRow EXCEPT !.id = entity[i].id]) >> ]

update(i, now) ==
    LET metadata == Metadata(batch[i].kind)
        relatedEntity == batch[i].rel
        hasValueMaps == subject[i].diffColumns > 0 \/ subject[i].diffRelations > 0
        values ==
            [ NoRow EXCEPT
                !.col = IF subject[i].diffColumns > 0 THEN 1 ELSE 0,
                !.fk = IF subject[i].diffRelations > 0 /\ relatedEntity # 0
                       THEN entity[relatedEntity].id ELSE 0,
                !.updateDate = IF metadata.hasUpdateDateColumn THEN now ELSE 0,
                !.version = IF metadata.hasVersionColumn
                            THEN entity[i].version + 1 ELSE 0 ]
        idMap == entity[i].id
    IN  IF ~hasValueMaps THEN [ thrown |-> FALSE, stmts |-> <<>> ]        \* line 726
        ELSE IF idMap = 0 THEN [ thrown |-> TRUE, stmts |-> <<>> ]       \* line 781
        ELSE [ thrown |-> FALSE,
               stmts |-> << Stmt("update", 5, metadata.table, i, "none", values,
                                 [NoRow EXCEPT !.id = idMap]) >> ]

\* updateRelations(), lines 802-814
\* faulty variant: the update is issued with an empty condition when no
\* identity map can be derived
updateRelationsUnconditioned(i) ==
    [ thrown |-> FALSE,
      stmts |-> << Stmt("update", 6, Metadata(batch[i].kind).table, i, "none",
                        [NoRow EXCEPT !.fk = IF batch[i].rel # 0
                                             THEN entity[batch[i].rel].id ELSE 0],
                        [NoRow EXCEPT !.id = batch[i].dbId]) >> ]

updateRelations(i) ==
    LET metadata == Metadata(batch[i].kind)
        value == IF batch[i].rel # 0 THEN entity[batch[i].rel].id ELSE 0
        idMap == batch[i].dbId
    IN  IF idMap = 0 THEN [ thrown |-> TRUE, stmts |-> <<>> ]
        ELSE [ thrown |-> FALSE,
               stmts |-> << Stmt("update", 6, metadata.table, i, "none",
                                 [NoRow EXCEPT !.fk = value],
                                 [NoRow EXCEPT !.id = idMap]) >> ]

-----------------------------------------------------------------------------
(* Remove phase.                                                           *)

\* remove(), lines 830-846: the first delete issued for the k-th remove subject
remove(k) ==
    LET i == removeSubjects[k]
        metadata == Metadata(batch[i].kind)
    IN  IF metadata.hasParent
        THEN [ Stmt("delete", 7, metadata.parentTable, i, "removeParent", NoRow,
                    [NoRow EXCEPT !.id = batch[i].dbId])
               EXCEPT !.local = k ]
        ELSE [ Stmt("delete", 7, metadata.table, i, "remove", NoRow,
                    [NoRow EXCEPT !.id = batch[i].dbId])
               EXCEPT !.local = k ]

\* remove(), lines 838-842: the second delete of a table-inheritance subject
removeChild(k) ==
    LET i == removeSubjects[k]
        metadata == Metadata(batch[i].kind)
    IN  [ Stmt("delete", 7, metadata.table, i, "remove", NoRow,
               [NoRow EXCEPT !.parentId = batch[i].dbId])
          EXCEPT !.local = k ]

\* faulty variant: every remove is started at once
runAllAtOnce(k) ==
    IF k = 0 THEN [j \in 1..Len(removeSubjects) |-> remove(j)] ELSE <<>>

\* PromiseUtils.runInSequence over removeSubjects (line 824): what is started
\* once the remove of the k-th subject has completed (k = 0: at the start)
runInSequence(k) ==
    IF k < Len(removeSubjects) THEN <<remove(k + 1)>> ELSE <<>>

-----------------------------------------------------------------------------
(* Materialization.                                                        *)

\* updateSpecialColumnsInPersistedEntities(), lines 976-1024
\* faulty variant: only the generated ids are written onto the entities
updateIdsInPersistedEntities ==
    [ i \in 1..Len(batch) |->
        IF batch[i].mustBeInserted /\ subject[i].newlyGeneratedId # 0
        THEN [ entity[i] EXCEPT !.id = subject[i].newlyGeneratedId ]
        ELSE IF batch[i].mustBeRemoved /\ batch[i].hasEntity
        THEN [ entity[i] EXCEPT !.id = 0 ]
        ELSE entity[i] ]

\* faulty variant: the key is removed from the entity of every subject
updateClearingEveryId ==
    [ i \in 1..Len(batch) |-> [ entity[i] EXCEPT !.id = 0 ] ]

updateSpecialColumnsInPersistedEntities ==
    [ i \in 1..Len(batch) |->
        LET metadata == Metadata(batch[i].kind)
            e0 == entity[i]
            e1 == IF batch[i].mustBeInserted
                  THEN [ e0 EXCEPT
                           !.id = IF metadata.hasParent /\ subject[i].parentGeneratedId # 0
                                  THEN subject[i].parentGeneratedId
                                  ELSE IF subject[i].newlyGeneratedId # 0
                                  THEN subject[i].newlyGeneratedId
                                  ELSE IF subject[i].generatedObjectId # 0 /\ metadata.hasObjectIdColumn
                                  THEN subject[i].generatedObjectId
                                  ELSE @,
                           !.updateDate = IF metadata.hasUpdateDateColumn THEN batch[i].date ELSE @,
                           !.createDate = IF metadata.hasCreateDateColumn THEN batch[i].date ELSE @,
                           !.version = IF metadata.hasVersionColumn THEN 1 ELSE @,
                           !.level = IF metadata.hasTreeLevelColumn THEN subject[i].treeLevel ELSE @ ]
                  ELSE e0
            e2 == IF batch[i].mustBeUpdated
                  THEN [ e1 EXCEPT
                           !.updateDate = IF metadata.hasUpdateDateColumn THEN batch[i].date ELSE @,
                           !.version = IF metadata.hasVersionColumn THEN @ + 1 ELSE @ ]
                  ELSE e1
        IN  IF batch[i].mustBeRemoved /\ batch[i].hasEntity
            THEN [ e2 EXCEPT !.id = 0 ]
            ELSE e2 ]

-----------------------------------------------------------------------------
(* execute(): one action per continuation.                                 *)

\* the states in which execute() awaits the statements of a phase
PhasePcs == { "insertFirst", "insertSecond", "insertUpdate", "closure",
              "junctionInsert", "junctionRemove", "update", "updateRelations",
              "remove" }

\* Subject.recompute() after the before-events, line 115
recompute ==
    [ i \in 1..Len(batch) |->
        IF batch[i].mustBeUpdated
        THEN [ subject[i] EXCEPT
                 !.diffColumns = batch[i].diffColumns - (IF batch[i].eventDiff THEN 1 ELSE 0) ]
        ELSE subject[i] ]

\* faulty variant: the rollback's error replaces the original one
surfacedSecondaryError(original, secondaryError) == secondaryError

\* the error execute() rejects with when the rollback it attempted failed,
\* lines 143-147
surfacedError(original, secondaryError) == original

\* execute(), lines 69-103, up to the first await
execute ==
    /\ pc = "start"
    /\ IF ~subjectsValid
       THEN /\ pc' = "rejected"
            /\ error' = "validate"
            /\ UNCHANGED <<calls, inflight, pending>>
       ELSE IF nothingToExecute
       THEN /\ pc' = "resolved"
            /\ UNCHANGED <<calls, inflight, pending, error>>
       ELSE Advance({}, <<Call("provide")>>, "", "provide")
    /\ UNCHANGED <<batch, txActive, isTransactionStartedByItself, subject, entity,
                   nextId, closureTable, failed, returned, joined, idWrites>>
    /\ UNCHANGED outsideExecutor

\* execute(), lines 103-112: the query runner was provided
provideResolved ==
    /\ pc = "provide"
    /\ IF ~isTransactionActive
       THEN /\ isTransactionStartedByItself' = TRUE
            /\ Advance({}, <<Call("beginTransaction")>>, "", "begin")
       ELSE /\ isTransactionStartedByItself' = isTransactionStartedByItself
            /\ Advance({}, <<Call("broadcastBeforeEventsForAll")>>, "", "before")
    /\ joined' = txActive
    /\ UNCHANGED <<batch, txActive, subject, entity, nextId, closureTable, failed,
                   returned, idWrites>>
    /\ UNCHANGED outsideExecutor

provideRejected ==
    /\ pc = "provide"
    /\ Advance({}, <<>>, "provide", pc)
    /\ UNCHANGED <<batch, txActive, isTransactionStartedByItself, subject, entity,
                   nextId, closureTable, failed, returned, joined, idWrites>>
    /\ UNCHANGED outsideExecutor

\* WebsqlQueryRunner.beginTransaction() succeeded; execute(), line 112
beginTransactionResolved ==
    /\ pc = "begin"
    /\ ~txActive
    /\ txActive' = TRUE
    /\ Advance({}, <<Call("broadcastBeforeEventsForAll")>>, "", "before")
    /\ UNCHANGED <<batch, isTransactionStartedByItself, subject, entity, nextId,
                   closureTable, failed, returned, joined, idWrites>>
    /\ UNCHANGED outsideExecutor

beginTransactionRejected ==
    /\ pc = "begin"
    /\ Advance({}, <<>>, "begin", pc)
    /\ UNCHANGED <<batch, txActive, isTransactionStartedByItself, subject, entity,
                   nextId, closureTable, failed, returned, joined, idWrites>>
    /\ UNCHANGED outsideExecutor

\* execute(), lines 115-117, and executeInsertOperations(), lines 182-191
broadcastBeforeResolved ==
    /\ pc = "before"
    /\ subject' = recompute
    /\ Advance({}, Map(firstInsertSubjects, LAMBDA i : insert(i, FALSE)), "", "insertFirst")
    /\ UNCHANGED <<batch, txActive, isTransactionStartedByItself, entity, nextId,
                   closureTable, failed, returned, joined, idWrites>>
    /\ UNCHANGED outsideExecutor

broadcastBeforeRejected ==
    /\ pc = "before"
    /\ Advance({}, <<>>, "before", pc)
    /\ UNCHANGED <<batch, txActive, isTransactionStartedByItself, subject, entity,
                   nextId, closureTable, failed, returned, joined, idWrites>>
    /\ UNCHANGED outsideExecutor

\* a phase step that only issues statements
PhaseStep(from, to, stmts, thrown) ==
    /\ pc = from
    /\ allResolved
    /\ Advance({}, stmts, thrown, to)
    /\ UNCHANGED <<batch, txActive, isTransactionStartedByItself, subject, entity,
                   nextId, closureTable, failed, returned, joined, idWrites>>
    /\ UNCHANGED outsideExecutor

\* executeInsertOperations(), line 192
insertSecondGroup ==
    PhaseStep("insertFirst", "insertSecond",
              Map(secondInsertSubjects, LAMBDA i : insert(i, TRUE)), "")

\* executeInsertOperations(), lines 201-395
updateRelationIds ==
    PhaseStep("insertSecond", "insertUpdate", updatePromises, "")

\* execute(), line 118
executeInsertClosureTableOperations ==
    PhaseStep("insertUpdate", "closure", closurePromises, "")

\* execute(), line 119
executeInsertJunctionsOperations ==
    LET results == Map(junctionInsertSubjects, insertJunctions)
    IN  PhaseStep("closure", "junctionInsert",
                  Flatten(Map(results, LAMBDA r : r.stmts)),
                  IF \E k \in 1..Len(results) : results[k].thrown THEN "cascade" ELSE "")

\* execute(), line 120
executeRemoveJunctionsOperations ==
    PhaseStep("junctionInsert", "junctionRemove",
              Flatten(Map(junctionRemoveSubjects, removeJunctions)), "")

\* execute(), line 121
executeUpdateOperations ==
    \E now \in {1, 2} :
        LET results == Map(updateSubjects, LAMBDA i : update(i, now))
        IN  PhaseStep("junctionRemove", "update",
                      Flatten(Map(results, LAMBDA r : r.stmts)),
                      IF \E k \in 1..Len(results) : results[k].thrown
                      THEN "internal" ELSE "")

\* execute(), line 122
executeUpdateRelations ==
    LET results == Map(relationUpdateSubjects, updateRelations)
    IN  PhaseStep("update", "updateRelations",
                  Flatten(Map(results, LAMBDA r : r.stmts)),
                  IF \E k \in 1..Len(results) : results[k].thrown
                  THEN "internal" ELSE "")

\* execute(), line 123: runInSequence starts with the first remove subject
executeRemoveOperations ==
    PhaseStep("updateRelations", "remove",
              runInSequence(0), "")

\* execute(), lines 125-134, when the remove phase has completed
commitTransaction ==
    /\ pc = "remove"
    /\ allResolved
    /\ IF mustCommit
       THEN /\ Advance({}, <<Call("commitTransaction")>>, "", "commit")
            /\ entity' = entity
       ELSE /\ entity' = updateSpecialColumnsInPersistedEntities
            /\ Advance({}, <<Call("broadcastAfterEventsForAll")>>, "", "after")
    /\ UNCHANGED <<batch, txActive, isTransactionStartedByItself, subject, nextId,
                   closureTable, failed, returned, joined, idWrites>>
    /\ UNCHANGED outsideExecutor

\* WebsqlQueryRunner.commitTransaction() succeeded; execute(), lines 130-134
commitTransactionResolved ==
    /\ pc = "commit"
    /\ txActive
    /\ txActive' = FALSE
    /\ entity' = updateSpecialColumnsInPersistedEntities
    /\ Advance({}, <<Call("broadcastAfterEventsForAll")>>, "", "after")
    /\ UNCHANGED <<batch, isTransactionStartedByItself, subject, nextId,
                   closureTable, failed, returned, joined, idWrites>>
    /\ UNCHANGED outsideExecutor

commitTransactionRejected ==
    /\ pc = "commit"
    /\ Advance({}, <<>>, "commit", pc)
    /\ UNCHANGED <<batch, txActive, isTransactionStartedByItself, subject, entity,
                   nextId, closureTable, failed, returned, joined, idWrites>>
    /\ UNCHANGED outsideExecutor

broadcastAfterResolved ==
    /\ pc = "after"
    /\ pc' = "resolved"
    /\ UNCHANGED <<batch, txActive, isTransactionStartedByItself, error, pending,
                   calls, inflight, subject, entity, nextId, closureTable, failed,
                   returned, joined, idWrites>>
    /\ UNCHANGED outsideExecutor

broadcastAfterRejected ==
    /\ pc = "after"
    /\ Advance({}, <<>>, "after", pc)
    /\ UNCHANGED <<batch, txActive, isTransactionStartedByItself, subject, entity,
                   nextId, closureTable, failed, returned, joined, idWrites>>
    /\ UNCHANGED outsideExecutor

\* WebsqlQueryRunner.rollbackTransaction() succeeded; execute(), line 147
rollbackTransactionResolved ==
    /\ pc = "rollback"
    /\ txActive
    /\ txActive' = FALSE
    /\ pc' = "rejected"
    /\ error' = pending
    /\ UNCHANGED <<batch, isTransactionStartedByItself, pending, calls, inflight,
                   subject, entity, nextId, closureTable, failed, returned, joined,
                   idWrites>>
    /\ UNCHANGED outsideExecutor

\* rollbackTransaction() failed; execute(), lines 143-147
rollbackTransactionRejected ==
    /\ pc = "rollback"
    /\ pc' = "rejected"
    /\ error' = surfacedError(pending, "rollback")
    /\ failed' = failed \cup { n \in 1..Len(calls) : calls[n].op = "rollbackTransaction" }
    /\ UNCHANGED <<batch, txActive, isTransactionStartedByItself, pending, calls,
                   inflight, subject, entity, nextId, closureTable, returned, joined,
                   idWrites>>
    /\ UNCHANGED outsideExecutor

-----------------------------------------------------------------------------
(* The query runner settles a statement; the code awaiting it continues.   *)

\* faulty variant: every continuation works on the first insert subject
awaitingFirstSubject(c) == IF insertSubjects # <<>> THEN insertSubjects[1] ELSE c.subj

\* the subject parameter of the function awaiting statement c, e.g. of
\* insert(), line 405
awaitingSubject(c) == c.subj

\* the query runner resolves statement n
statementResolved(n) ==
    /\ n \in inflight
    /\ LET c == calls[n]
           i == awaitingSubject(c)
           result == insertId(c)
       IN  /\ nextId' = IF c.op = "insert" /\ result = nextId THEN nextId + 1 ELSE nextId
           /\ returned' = IF c.op = "insert" THEN returned \cup {<<n, result>>}
                          ELSE returned
           /\ CASE c.cont = "insert" ->                        \* insert(), lines 427-442
                     /\ subject' = [subject EXCEPT ![i] = withGeneratedIds(i, result, 0)]
                     /\ idWrites' = [idWrites EXCEPT ![i] =
                            IF assignsNewlyGeneratedId(i, result) THEN @ + 1 ELSE @]
                     /\ Advance({n}, <<>>, "", pc)
                     /\ UNCHANGED closureTable
                [] c.cont = "insertParent" ->                  \* insert(), lines 417-421
                     /\ Advance({n}, <<insertChild(i, c.already, result)>>, "", pc)
                     /\ UNCHANGED <<subject, idWrites, closureTable>>
                [] c.cont = "insertChild" ->                   \* insert(), lines 421-442
                     LET newlyGeneratedId == IF c.local = 0 /\ result # 0 THEN result
                                             ELSE c.local
                     IN  /\ subject' = [subject EXCEPT
                                ![i] = withGeneratedIds(i, newlyGeneratedId, c.local)]
                         /\ idWrites' = [idWrites EXCEPT ![i] =
                                IF assignsNewlyGeneratedId(i, newlyGeneratedId)
                                THEN @ + 1 ELSE @]
                         /\ Advance({n}, <<>>, "", pc)
                         /\ UNCHANGED closureTable
                [] c.cont = "closure" ->      \* insertClosureTableValues(), lines 673-678
                     LET table == closureTable \cup closureRows(c.vals.c1, c.vals.c2, c.gen)
                         level == closureLevel(table, c.vals.c2)
                     IN  /\ closureTable' = table
                         /\ subject' = [subject EXCEPT ![i] = withTreeLevel(i, level)]
                         /\ Advance({n},
                                    IF Metadata(batch[i].kind).hasTreeLevelColumn
                                    THEN <<updateTreeLevel(c, level)>> ELSE <<>>,
                                    "", pc)
                         /\ UNCHANGED idWrites
                [] c.cont = "removeParent" ->                  \* remove(), lines 836-842
                     /\ Advance({n}, <<removeChild(c.local)>>, "", pc)
                     /\ UNCHANGED <<subject, idWrites, closureTable>>
                [] c.cont = "remove" ->       \* runInSequence: the next remove subject
                     /\ Advance({n}, runInSequence(c.local), "", pc)
                     /\ UNCHANGED <<subject, idWrites, closureTable>>
                [] OTHER ->
                     /\ Advance({n}, <<>>, "", pc)
                     /\ UNCHANGED <<subject, idWrites, closureTable>>
    /\ UNCHANGED <<batch, txActive, isTransactionStartedByItself, entity, failed,
                   joined>>
    /\ UNCHANGED outsideExecutor

\* faulty variant: the rejection is swallowed by the function awaiting the statement
statementRejectedSwallowed(n) ==
    /\ n \in inflight
    /\ failed' = failed \cup {n}
    /\ Advance({n}, <<>>, "", pc)
    /\ UNCHANGED <<batch, txActive, isTransactionStartedByItself, subject, entity,
                   nextId, closureTable, returned, joined, idWrites>>
    /\ UNCHANGED outsideExecutor

\* the query runner rejects statement n: the function awaiting it throws,
\* the Promise.all (or sequence) it belongs to rejects, and execute(), when
\* it is still awaiting that promise, enters its catch block
statementRejected(n) ==
    /\ n \in inflight
    /\ failed' = failed \cup {n}
    /\ Advance({n}, <<>>, IF pc \in PhasePcs THEN "transport" ELSE "", pc)
    /\ UNCHANGED <<batch, txActive, isTransactionStartedByItself, subject, entity,
                   nextId, closureTable, returned, joined, idWrites>>
    /\ UNCHANGED outsideExecutor

Next ==
    \/ execute
    \/ provideResolved
    \/ provideRejected
    \/ beginTransactionResolved
    \/ beginTransactionRejected
    \/ broadcastBeforeResolved
    \/ broadcastBeforeRejected
    \/ insertSecondGroup
    \/ updateRelationIds
    \/ executeInsertClosureTableOperations
    \/ executeInsertJunctionsOperations
    \/ executeRemoveJunctionsOperations
    \/ executeUpdateOperations
    \/ executeUpdateRelations
    \/ executeRemoveOperations
    \/ commitTransaction
    \/ commitTransactionResolved
    \/ commitTransactionRejected
    \/ broadcastAfterResolved
    \/ broadcastAfterRejected
    \/ rollbackTransactionResolved
    \/ rollbackTransactionRejected
    \/ \E n \in inflight : statementResolved(n)
    \/ \E n \in inflight : statementRejected(n)

Spec == Init /\ [][Next]_vars

-----------------------------------------------------------------------------
(* Properties.                                                             *)

Issued(op) == { n \in 1..Len(calls) : calls[n].op = op }
Statements == { n \in 1..Len(calls) : calls[n].phase > 0 }

\* the entities as the caller handed them in
EntitiesAsHandedIn ==
    [ i \in 1..Len(batch) |->
        [ id |-> batch[i].id, version |-> batch[i].version, createDate |-> 0,
          updateDate |-> 0, level |-> batch[i].level ] ]

TransactionCalls ==
    Issued("beginTransaction") \cup Issued("commitTransaction")
        \cup Issued("rollbackTransaction")

\* C1: the phases are barriers: whenever a statement of a later phase has
\* been issued, every statement of every earlier phase was issued before it
\* and has already settled.
C1_PhasesAreBarriers ==
    \A m \in Statements : \A n \in Statements :
        calls[m].phase < calls[n].phase => (m < n /\ m \notin inflight)

\* a successful call that issued statements in at least three phases
C1_Witness ==
    /\ pc = "resolved"
    /\ \E l \in Statements : \E m \in Statements : \E n \in Statements :
           calls[l].phase < calls[m].phase /\ calls[m].phase < calls[n].phase

\* C2: a call that found the transaction active never begins, commits or
\* rolls back a transaction, and leaves the transaction active.
C2_JoinedCallLeavesTransaction ==
    joined => (TransactionCalls = {} /\ txActive)

\* a joined call that failed on a rejected statement
C2_Witness ==
    joined /\ pc = "rejected" /\ error = "transport"

\* the failure execute() caught or rejected with
Failure == IF pc = "rollback" THEN pending ELSE error

\* the failures that happen after the transaction is opened
AfterOpening == {"before", "transport", "cascade", "internal", "commit", "after"}

\* C3: after a failure that happened once the transaction was open, a
\* rollback has been attempted exactly when this call began the transaction.
C3_RollbackIffOwner ==
    (pc \in {"rollback", "rejected"} /\ Failure \in AfterOpening)
        => (Issued("rollbackTransaction") # {} <=> Issued("beginTransaction") # {})

\* the owner failed in the before-broadcast and attempted the rollback
C3_Witness ==
    /\ pc = "rejected"
    /\ error = "before"
    /\ Issued("beginTransaction") # {}
    /\ Issued("rollbackTransaction") # {}

\* C4: when the rollback itself failed, execute() rejects with the error
\* that made it roll back.
C4_RollbackFailureSwallowed ==
    (pc = "rejected" /\ Issued("rollbackTransaction") \cap failed # {})
        => (error = pending /\ error # "rollback" /\ error # "")

\* a statement was rejected, the rollback failed, the statement's error surfaces
C4_Witness ==
    /\ pc = "rejected"
    /\ Issued("rollbackTransaction") \cap failed # {}
    /\ error = "transport"

\* C5: when a subject of the batch does not validate, execute() rejects with
\* the validation error and nothing else has happened: no collaborator call,
\* no statement, no entity modified.
C5_ValidationBeforeIO ==
    (\E i \in 1..Len(batch) : ~validate(batch[i]))
        => /\ pc \in {"start", "rejected"}
           /\ pc = "rejected" => error = "validate"
           /\ calls = <<>>
           /\ inflight = {}
           /\ entity = EntitiesAsHandedIn
           /\ ~isTransactionStartedByItself

\* a batch with a valid insert subject and an invalid subject was rejected
C5_Witness ==
    /\ pc = "rejected"
    /\ error = "validate"
    /\ \E i \in 1..Len(batch) : batch[i].mustBeInserted /\ validate(batch[i])

\* a batch with nothing to insert, update, remove or link
NoOperations ==
    \A i \in 1..Len(batch) :
        /\ ~batch[i].mustBeInserted
        /\ ~batch[i].mustBeUpdated
        /\ ~batch[i].mustBeRemoved
        /\ ~batch[i].hasRelationUpdates
        /\ batch[i].junctionInserts = <<>>
        /\ batch[i].junctionRemoves = <<>>

\* C6: execute() on a batch without operations returns without any
\* collaborator call (query runner, transaction, broadcaster).
C6_NothingToExecute ==
    NoOperations
        => /\ pc \in {"start", "resolved"}
           /\ calls = <<>>
           /\ entity = EntitiesAsHandedIn
           /\ error = ""

\* execute([]) has returned
C6_Witness ==
    batch = <<>> /\ pc = "resolved"

\* the rejected inserts of the second group
RejectedSecondInserts ==
    { n \in failed : calls[n].op = "insert" /\ calls[n].phase = 1 /\ calls[n].already }

\* C7: once an insert of the second group was rejected, execute() rejects:
\* nothing is committed, no entity is written and no after-broadcast fired.
C7_NoMaterializationOnRejectedInsert ==
    RejectedSecondInserts # {}
        => /\ pc \in {"rollback", "rejected"}
           /\ pc = "rejected" => error = "transport"
           /\ entity = EntitiesAsHandedIn
           /\ Issued("commitTransaction") = {}
           /\ Issued("broadcastAfterEventsForAll") = {}

\* the call was rejected while a first-group subject holds a generated id
C7_Witness ==
    /\ RejectedSecondInserts # {}
    /\ pc = "rejected"
    /\ \E i \in Range(firstInsertSubjects) : subject[i].newlyGeneratedId # 0

\* C8: once execute() has called rollbackTransaction, no statement issued by
\* the call is still in flight, so none completes after the rollback.
C8_NoStatementOutlivesRollback ==
    Issued("rollbackTransaction") # {} => Statements \cap inflight = {}

\* the batches of C9: a new A whose required relation points at a new B
\* without required relations
RequiredRelationPairs ==
    { <<a, b>> \in (1..Len(batch)) \X (1..Len(batch)) :
        /\ Len(batch) = 2
        /\ batch[a].mustBeInserted /\ Metadata(batch[a].kind).hasNonNullableColumns
        /\ batch[a].rel = b
        /\ batch[b].mustBeInserted /\ ~Metadata(batch[b].kind).hasNonNullableColumns }

\* C9: in a two-entity insert batch where A requires B, whenever the insert
\* of A's row has been issued, the insert of B's row was issued before it and
\* has resolved with a generated id, and A's row carries that id as its
\* foreign key.
C9_ForeignKeyIsGeneratedId ==
    \A p \in RequiredRelationPairs :
        \A n \in Issued("insert") :
            calls[n].subj = p[1]
                => \E m \in Issued("insert") :
                       /\ calls[m].subj = p[2]
                       /\ m < n
                       /\ m \notin inflight \cup failed
                       /\ \E r \in returned :
                              r[1] = m /\ r[2] # 0 /\ calls[n].vals.fk = r[2]

\* the call succeeded and A's row was inserted with a foreign key
C9_Witness ==
    /\ pc = "resolved"
    /\ \E p \in RequiredRelationPairs :
           \E n \in Issued("insert") :
               calls[n].subj = p[1] /\ calls[n].vals.fk # 0 /\ n \notin inflight

\* the batches of C10: new entities only, none with a required relation, all
\* with a generated primary column
OnlyNullableInserts ==
    /\ batch # <<>>
    /\ \A i \in 1..Len(batch) :
           /\ batch[i].mustBeInserted
           /\ ~Metadata(batch[i].kind).hasNonNullableColumns
           /\ Metadata(batch[i].kind).hasGeneratedColumn

\* C10: after a successful execute() on a batch of new entities without
\* required relations, every entity holds a generated id, which is the id
\* the database returned for the entity's row and which was assigned to the
\* entity's subject exactly once.
C10_GeneratedIdAssignedOnce ==
    (pc = "resolved" /\ OnlyNullableInserts)
        => \A i \in 1..Len(batch) :
               /\ entity[i].id # 0
               /\ idWrites[i] = 1
               /\ subject[i].newlyGeneratedId = entity[i].id
               /\ \E r \in returned : calls[r[1]].subj = i /\ r[2] = entity[i].id

\* a successful call on two new entities, one of them a class-table child
C10_Witness ==
    /\ pc = "resolved"
    /\ OnlyNullableInserts
    /\ Len(batch) = 2
    /\ \E i \in 1..Len(batch) : Metadata(batch[i].kind).isClassTableChild

\* the insert statements of subject i that settle in this step
InsertsSettling(i) ==
    { n \in inflight \ inflight' :
        calls[n].op = "insert" /\ calls[n].phase = 1 /\ calls[n].subj = i }

\* C11: a subject's newlyGeneratedId and generatedObjectId change only in a
\* step in which an insert statement of that subject resolves, and only if
\* neither was written before; every other step leaves them as they are.
C11_GeneratedIdsWrittenOnceByInsert ==
    [][\A i \in 1..Len(batch) :
          (\/ subject'[i].newlyGeneratedId # subject[i].newlyGeneratedId
           \/ subject'[i].generatedObjectId # subject[i].generatedObjectId)
              => /\ InsertsSettling(i) # {}
                 /\ subject[i].newlyGeneratedId = 0
                 /\ subject[i].generatedObjectId = 0
                 /\ idWrites[i] = 0]_vars

\* a successful call in which a subject with a generated id went through the
\* closure-table phase and the materialization
C11_Witness ==
    /\ pc = "resolved"
    /\ \E i \in 1..Len(batch) :
           /\ subject[i].newlyGeneratedId # 0
           /\ entity[i].id = subject[i].newlyGeneratedId
           /\ \E n \in Statements : calls[n].subj = i /\ calls[n].phase = 2

\* the delete statements the remove phase issued for subject i
DeletesOf(i) ==
    { n \in Issued("delete") : calls[n].phase = 7 /\ calls[n].subj = i }

\* C12: for a removed subject with table inheritance at most two deletes are
\* issued, and the delete on the parent table is issued only after the
\* delete on the child table.
C12_ChildTableDeletedFirst ==
    \A i \in 1..Len(batch) :
        (batch[i].mustBeRemoved /\ Metadata(batch[i].kind).hasParent)
            => /\ Cardinality(DeletesOf(i)) <= 2
               /\ \A n \in DeletesOf(i) :
                      calls[n].table = Metadata(batch[i].kind).parentTable
                          => \E m \in DeletesOf(i) :
                                 m < n /\ calls[m].table = Metadata(batch[i].kind).table

\* the delete statements of the remove phase
RemoveDeletes == { n \in Issued("delete") : calls[n].phase = 7 }

\* C13: at most one delete of the remove phase is in flight, and whenever a
\* later delete has been issued, every earlier one has completed and belongs
\* to the same or to an earlier subject of the batch.
C13_RemovesOneAtATime ==
    /\ Cardinality(RemoveDeletes \cap inflight) <= 1
    /\ \A m \in RemoveDeletes : \A n \in RemoveDeletes :
           m < n => /\ m \notin inflight \cup failed
                    /\ calls[m].subj <= calls[n].subj

\* a successful call that removed two subjects, one of them with two deletes
C13_Witness ==
    /\ pc = "resolved"
    /\ Cardinality(RemoveDeletes) = 3
    /\ \E m \in RemoveDeletes : \E n \in RemoveDeletes : calls[m].subj < calls[n].subj

\* the pairs of C14: a new tree entity c whose parent p was persisted before
NewTreeChildren ==
    { <<c, p>> \in (1..Len(batch)) \X (1..Len(batch)) :
        /\ batch[c].mustBeInserted /\ Metadata(batch[c].kind).isClosure
        /\ batch[c].rel = p
        /\ batch[p].hasDatabaseEntity /\ batch[p].id # 0 }

\* the closure rows whose descendant is the entity with primary key id
RowsOfDescendant(id) == { r \in closureTable : r.descendant = id }

\* C14: after a successful execute(), for a new tree entity C with a
\* persisted parent P, the closure table holds the self row (C,C) and, for
\* every row (a,P) that existed before, a row (a,C) one level deeper; and
\* the level written to C's own row is the largest level of C's closure rows.
C14_ClosureRowsOfNewChild ==
    pc = "resolved" =>
        \A cp \in NewTreeChildren :
            LET c == cp[1]
                id == entity[c].id
                hasLevel == Metadata(batch[c].kind).hasTreeLevelColumn
            IN  /\ id # 0
                /\ \E r \in RowsOfDescendant(id) : r.ancestor = id
                /\ \A q \in PersistedClosureRows(batch) :
                       q.descendant = batch[cp[2]].id
                           => \E r \in RowsOfDescendant(id) :
                                  /\ r.ancestor = q.ancestor
                                  /\ hasLevel => r.level = q.level + 1
                /\ hasLevel =>
                       \E n \in Issued("update") :
                           /\ calls[n].phase = 2 /\ calls[n].subj = c
                           /\ calls[n].cond.id = id
                           /\ calls[n].vals.level =
                                  Max({ r.level : r \in RowsOfDescendant(id) })
                           /\ n \notin inflight \cup failed

\* a new tree entity was inserted under a persisted parent that has an
\* ancestor of its own
C14_Witness ==
    /\ pc = "resolved"
    /\ \E cp \in NewTreeChildren :
           /\ batch[cp[2]].level = 2
           /\ Cardinality(RowsOfDescendant(entity[cp[1]].id)) = 3

\* the junction-table inserts issued for subject i
JunctionInsertsOf(i) ==
    { n \in Issued("insert") : calls[n].phase = 3 /\ calls[n].subj = i }

\* the subjects of C15: persisted, bound to one entity that is persisted too
PersistedJunctionSubjects ==
    { i \in 1..Len(batch) :
        /\ Len(batch[i].junctionInserts) = 1
        /\ batch[i].id # 0
        /\ batch[batch[i].junctionInserts[1]].id # 0 }

\* the states in which execute() has started the junction inserts
JunctionInsertsStarted ==
    pc \in { "junctionInsert", "junctionRemove", "update", "updateRelations",
             "remove", "commit", "after", "resolved" }

\* C15: for a persisted subject bound to one persisted entity, the junction
\* phase issues exactly one junction-table insert, whose row is (own id,
\* related id) on the owning side and (related id, own id) on the inverse side.
C15_OneJunctionRowInOwnerOrder ==
    \A i \in PersistedJunctionSubjects :
        LET ownId == batch[i].id
            relatedId == batch[batch[i].junctionInserts[1]].id
        IN  /\ Cardinality(JunctionInsertsOf(i)) <= 1
            /\ JunctionInsertsStarted => Cardinality(JunctionInsertsOf(i)) = 1
            /\ \A n \in JunctionInsertsOf(i) :
                   IF Metadata(batch[i].kind).isManyToManyOwner
                   THEN calls[n].vals.c1 = ownId /\ calls[n].vals.c2 = relatedId
                   ELSE calls[n].vals.c1 = relatedId /\ calls[n].vals.c2 = ownId

\* a successful call that bound a persisted entity from the inverse side
C15_Witness ==
    /\ pc = "resolved"
    /\ \E i \in PersistedJunctionSubjects :
           /\ ~Metadata(batch[i].kind).isManyToManyOwner
           /\ JunctionInsertsOf(i) # {}

\* an entity whose id is neither on the entity nor generated by this call
WithoutId(i) == batch[i].id = 0 /\ ~batch[i].mustBeInserted

\* some pending junction insert lacks the subject's id or a bound entity's id
UnresolvableJunctionInsert ==
    \E i \in 1..Len(batch) :
        /\ batch[i].junctionInserts # <<>>
        /\ \/ WithoutId(i)
           \/ \E k \in 1..Len(batch[i].junctionInserts) :
                  WithoutId(batch[i].junctionInserts[k])

\* C16: when a pending junction insert lacks an id, execute() never gets
\* past the junction-insert phase and never commits; unless it failed before
\* that phase it fails with the cascade error, and then the transaction is
\* rolled back exactly when the call began it.
C16_UnresolvedJunctionIdFailsBatch ==
    UnresolvableJunctionInsert =>
        /\ pc \in { "start", "provide", "begin", "before", "insertFirst",
                    "insertSecond", "insertUpdate", "closure", "rollback",
                    "rejected" }
        /\ Issued("commitTransaction") = {}
        /\ Issued("broadcastAfterEventsForAll") = {}
        /\ entity = EntitiesAsHandedIn
        /\ pc \in {"rollback", "rejected"} =>
               \/ Failure = "cascade"
               \/ Failure \in {"validate", "provide", "begin", "before"}
               \/ /\ Failure = "transport"
                  /\ \E n \in failed : calls[n].phase \in {1, 2}
        /\ (pc \in {"rollback", "rejected"} /\ Failure = "cascade") =>
               (Issued("rollbackTransaction") # {} <=> Issued("beginTransaction") # {})

\* the call began the transaction, failed with the cascade error because the
\* bound entity has no id, and rolled back
C16_Witness ==
    /\ pc = "rejected"
    /\ error = "cascade"
    /\ Issued("beginTransaction") # {}
    /\ Issued("rollbackTransaction") # {}
    /\ \E i \in 1..Len(batch) :
           /\ batch[i].junctionInserts # <<>>
           /\ ~WithoutId(i)
           /\ WithoutId(batch[i].junctionInserts[1])

\* the generated ids, versions and removals are written to the entities
Materialized ==
    \A i \in 1..Len(batch) :
        /\ batch[i].mustBeInserted => entity[i].id # 0
        /\ (batch[i].mustBeUpdated /\ Metadata(batch[i].kind).hasVersionColumn)
               => entity[i].version = batch[i].version + 1
        /\ (batch[i].mustBeRemoved /\ batch[i].hasEntity) => entity[i].id = 0

\* C17: each broadcast is invoked at most once, and exactly once in a
\* successful call on a batch with operations; the before-broadcast follows
\* the query runner (and beginTransaction, unless the call joined) and
\* precedes every statement; the after-broadcast comes after every statement
\* has completed, after the commit of an owner, and with the entities
\* materialized.
C17_BroadcastsOnceAndInOrder ==
    LET before == Issued("broadcastBeforeEventsForAll")
        after == Issued("broadcastAfterEventsForAll")
    IN  /\ Cardinality(before) <= 1
        /\ Cardinality(after) <= 1
        /\ (pc = "resolved" /\ ~NoOperations)
               => Cardinality(before) = 1 /\ Cardinality(after) = 1
        /\ \A b \in before :
               /\ \E p \in Issued("provide") : p < b
               /\ joined \/ \E g \in Issued("beginTransaction") : g < b
        /\ \A n \in Statements : \E b \in before : b < n
        /\ \A a \in after :
               /\ \A n \in Statements : n < a /\ n \notin inflight \cup failed
               /\ \A b \in before : b < a
               /\ Issued("beginTransaction") # {}
                      => /\ \E c \in Issued("commitTransaction") : c < a
                         /\ ~txActive
               /\ Materialized

\* an owner's successful call that issued statements and assigned an id
C17_Witness ==
    /\ pc = "resolved"
    /\ Issued("beginTransaction") # {}
    /\ Statements # {}
    /\ \E i \in 1..Len(batch) : batch[i].mustBeInserted

\* the update statements of the update phase that resolved for subject i
UpdatesResolvedOf(i) ==
    { n \in Issued("update") \ (inflight \cup failed) :
        calls[n].phase = 5 /\ calls[n].subj = i }

\* the version stored in the row of subject i's entity: the one an update of
\* this call wrote, else the one the entity was loaded with
StoredVersion(i) ==
    IF UpdatesResolvedOf(i) = {} THEN batch[i].version
    ELSE calls[Max(UpdatesResolvedOf(i))].vals.version

\* C18: after a successful execute() the version of every update subject's
\* entity equals the version stored in the entity's row.
C18_VersionMatchesStoredVersion ==
    pc = "resolved" =>
        \A i \in 1..Len(batch) :
            (batch[i].mustBeUpdated /\ Metadata(batch[i].kind).hasVersionColumn)
                => entity[i].version = StoredVersion(i)

\* C19: a call that found no transaction active calls beginTransaction
\* before the before-broadcast and before every statement; beginTransaction
\* and commitTransaction are called at most once, and exactly once in a
\* successful call on a batch with operations; commitTransaction is called
\* after every statement has completed and, while it is pending, no entity
\* has been written.
C19_OwnerBeginsFirstCommitsOnce ==
    LET begins == Issued("beginTransaction")
        commits == Issued("commitTransaction")
        found == Issued("broadcastBeforeEventsForAll") \cup Statements
    IN  /\ Cardinality(begins) <= 1
        /\ Cardinality(commits) <= 1
        /\ ~joined => \A n \in found : \E g \in begins : g < n
        /\ (pc = "resolved" /\ ~NoOperations /\ ~joined)
               => Cardinality(begins) = 1 /\ Cardinality(commits) = 1
        /\ \A c \in commits :
               /\ ~joined
               /\ \A n \in Statements : n < c /\ n \notin inflight \cup failed
               /\ \A a \in Issued("broadcastAfterEventsForAll") : c < a
               /\ pc = "commit" => entity = EntitiesAsHandedIn

\* a call that began the transaction, removed an entity and succeeded
C19_Witness ==
    /\ pc = "resolved"
    /\ ~joined
    /\ Issued("commitTransaction") # {}
    /\ RemoveDeletes # {}
    /\ entity # EntitiesAsHandedIn

\* the inserts of the insert phase issued for subject i
InsertsOf(i) ==
    { n \in Issued("insert") : calls[n].phase = 1 /\ calls[n].subj = i }

\* insert subjects without (bucket A) and with (bucket B) non-nullable columns
BucketA ==
    { i \in 1..Len(batch) :
        batch[i].mustBeInserted /\ ~Metadata(batch[i].kind).hasNonNullableColumns }
BucketB ==
    { i \in 1..Len(batch) :
        batch[i].mustBeInserted /\ Metadata(batch[i].kind).hasNonNullableColumns }

\* C20: whenever an insert of a bucket-B subject has been issued, every
\* insert of every bucket-A subject was issued before it and has resolved,
\* and every bucket-A subject holds its generated id.
C20_BucketAFinishedBeforeBucketB ==
    \A b \in BucketB : \A n \in InsertsOf(b) :
        \A a \in BucketA :
            /\ InsertsOf(a) # {}
            /\ \A m \in InsertsOf(a) : m < n /\ m \notin inflight \cup failed
            /\ subject[a].newlyGeneratedId # 0

\* the insert of a bucket-B subject is in flight
C20_Witness ==
    /\ pc = "insertSecond"
    /\ \E b \in BucketB : InsertsOf(b) \cap inflight # {}
    /\ BucketA # {}

\* the ids the database returned for the rows inserted for subject i
IdsReturnedFor(i) ==
    { r[2] : r \in { q \in returned : q[1] \in InsertsOf(i) } }

\* every insert of the insert subject i has been issued and has resolved
InsertsCompleted(i) ==
    /\ InsertsOf(i) # {}
    /\ InsertsOf(i) \cap (inflight \cup failed) = {}
    /\ Metadata(batch[i].kind).isClassTableChild => Cardinality(InsertsOf(i)) = 2

ClassTableChildren ==
    { i \in 1..Len(batch) :
        batch[i].mustBeInserted /\ Metadata(batch[i].kind).isClassTableChild }

\* C22: for a class-table child at most two inserts are issued, the first
\* on the parent table and the second on the child table; the second is
\* issued only when the first has resolved and carries the id the first
\* returned as its parent-id value (the entity's own key when none was
\* returned); once both resolved, the subject's generated id is the id the
\* parent insert returned, or the child insert's when the parent insert
\* returned none.
C22_ParentThenChildInsert ==
    \A i \in ClassTableChildren :
        LET metadata == Metadata(batch[i].kind)
            parents == { n \in InsertsOf(i) : calls[n].table = metadata.parentTable }
            children == { n \in InsertsOf(i) : calls[n].table = metadata.table }
            idOf(n) == CHOOSE id \in 0..(AssignedId(Len(batch)) + 1) : <<n, id>> \in returned
        IN  /\ Cardinality(parents) <= 1
            /\ Cardinality(children) <= 1
            /\ InsertsOf(i) = parents \cup children
            /\ \A c \in children : \E p \in parents :
                   /\ p < c
                   /\ p \notin inflight \cup failed
                   /\ calls[c].vals.parentId =
                          IF idOf(p) # 0 THEN idOf(p) ELSE batch[i].id
            /\ InsertsCompleted(i) =>
                   \A p \in parents : \A c \in children :
                       subject[i].newlyGeneratedId =
                           IF idOf(p) # 0 THEN idOf(p) ELSE idOf(c)
            /\ (pc \in {"insertSecond", "insertUpdate", "closure", "resolved"}
                    /\ ~Metadata(batch[i].kind).hasNonNullableColumns)
                   => InsertsCompleted(i)

\* a successful call inserted a class-table child whose parent insert
\* returned no id
C22_Witness ==
    /\ pc = "resolved"
    /\ \E i \in ClassTableChildren :
           /\ InsertsCompleted(i)
           /\ \E p \in InsertsOf(i) : <<p, 0>> \in returned
           /\ subject[i].newlyGeneratedId # 0

\* the updates of the insert phase
BackPatchUpdates == { n \in Issued("update") : calls[n].phase = 1 }

\* the closure-table phase has started
ClosurePhaseStarted ==
    \/ pc \in {"closure", "junctionInsert", "junctionRemove", "update",
               "updateRelations", "remove", "commit", "after", "resolved"}
    \/ \E n \in Statements : calls[n].phase >= 2

\* bucket-A subjects bound by their join column to an entity inserted by the
\* same call, whose row was inserted with a null foreign key
InsertedWithNullRelation ==
    { i \in BucketA :
        /\ Metadata(batch[i].kind).hasJoinColumn
        /\ batch[i].rel # 0
        /\ batch[batch[i].rel].mustBeInserted
        /\ \E n \in InsertsOf(i) :
               calls[n].table = Metadata(batch[i].kind).table /\ calls[n].vals.fk = 0 }

\* C23: the updates of the insert phase are issued when every insert has
\* resolved and have all resolved when the closure-table phase starts; by
\* then, for every bucket-A subject bound to an entity inserted by the same
\* call whose row was inserted with a null foreign key, one of them, on the
\* subject's table, sets the foreign key to the related subject's generated
\* id in the row with the subject's own generated id.
C23_BackPatchOfNullRelations ==
    /\ \A n \in BackPatchUpdates :
           \A m \in Statements :
               (calls[m].op = "insert" /\ calls[m].phase = 1)
                   => m < n /\ m \notin inflight \cup failed
    /\ ClosurePhaseStarted =>
           /\ BackPatchUpdates \cap (inflight \cup failed) = {}
           /\ \A i \in InsertedWithNullRelation :
                  \E n \in BackPatchUpdates :
                      /\ calls[n].table = Metadata(batch[i].kind).table
                      /\ subject[batch[i].rel].newlyGeneratedId # 0
                      /\ calls[n].vals.fk = subject[batch[i].rel].newlyGeneratedId
                      /\ subject[i].newlyGeneratedId # 0
                      /\ calls[n].cond.id = subject[i].newlyGeneratedId

\* the closure-table phase started after a new Post bound to a new Category
\* was inserted with a null foreign key
C23_Witness ==
    /\ \E n \in Issued("insertIntoClosureTable") : n \in inflight
    /\ \E i \in InsertedWithNullRelation : batch[i].kind = "Post"

\* the inserts of bucket-B subjects whose related entity, inserted in
\* bucket A by the same call, was handed in with its key
InsertsBoundToKeyedEntity ==
    { n \in Issued("insert") :
        /\ calls[n].phase = 1
        /\ calls[n].subj \in BucketB
        /\ calls[n].table = Metadata(batch[calls[n].subj].kind).table
        /\ batch[calls[n].subj].rel \in BucketA
        /\ batch[batch[calls[n].subj].rel].id # 0 }

InsertsSuppliedByInverseSide ==
    { n \in Issued("insert") :
        /\ calls[n].phase = 1
        /\ calls[n].table = Metadata(batch[calls[n].subj].kind).table
        /\ Metadata(batch[calls[n].subj].kind).hasJoinColumn
        /\ Metadata(batch[calls[n].subj].kind).hasInverseSide
        /\ batch[calls[n].subj].rel = 0
        /\ calls[n].vals.fk # 0 }

\* C25: a foreign key the inverse lookup supplied is the key of a subject
\* whose inverse relation value contains the inserted entity.
C25_InverseSideContainsTheEntity ==
    \A n \in InsertsSuppliedByInverseSide :
        \E s \in 1..Len(batch) :
            /\ batch[s].hasEntity
            /\ batch[s].kind = Metadata(batch[calls[n].subj].kind).relTarget
            /\ calls[n].subj \in batch[s].inv
            /\ calls[n].vals.fk = batch[s].id

\* the new entities bound through the junction table to one entity that
\* the same call inserts, neither handed in with a key
NewJunctionSubjects ==
    { i \in 1..Len(batch) :
        /\ batch[i].mustBeInserted
        /\ batch[i].id = 0
        /\ Len(batch[i].junctionInserts) = 1
        /\ batch[batch[i].junctionInserts[1]].mustBeInserted
        /\ batch[batch[i].junctionInserts[1]].id = 0 }

\* C26: a junction-table insert is issued only when every statement of the
\* insert phase has resolved; for a new entity bound to another new entity
\* the junction phase issues one insert whose row holds the id generated for
\* the subject and the id generated for the bound entity, neither null.
C26_JunctionRowOfNewEntities ==
    /\ \A n \in Issued("insert") : calls[n].phase = 3 =>
           \A m \in Statements : calls[m].phase = 1 =>
               m < n /\ m \notin inflight \cup failed
    /\ \A i \in NewJunctionSubjects :
           LET e == batch[i].junctionInserts[1]
           IN  /\ JunctionInsertsStarted => Cardinality(JunctionInsertsOf(i)) = 1
               /\ \A n \in JunctionInsertsOf(i) :
                      /\ subject[i].newlyGeneratedId # 0
                      /\ subject[e].newlyGeneratedId # 0
                      /\ calls[n].vals.c1 = subject[i].newlyGeneratedId
                      /\ calls[n].vals.c2 = subject[e].newlyGeneratedId

\* a successful call inserted a Post, a Category and the junction row
C26_Witness ==
    /\ pc = "resolved"
    /\ \E i \in NewJunctionSubjects :
           \E n \in JunctionInsertsOf(i) : n \notin inflight \cup failed

\* the update statements of the update phase issued for subject i
UpdatesOf(i) == { n \in Issued("update") : calls[n].phase = 5 /\ calls[n].subj = i }

\* the update subjects left without changed column and changed relation
\* when the subjects were recomputed
UnchangedUpdateSubjects ==
    { i \in 1..Len(batch) :
        /\ batch[i].mustBeUpdated
        /\ recompute[i].diffColumns = 0
        /\ recompute[i].diffRelations = 0 }

\* C27: no update statement is issued for an update subject without changed
\* column and changed relation after the recompute, whatever special
\* columns its metadata has; a statement issued in the update phase belongs
\* to a subject with a changed column or relation.
C27_NoStatementWithoutChanges ==
    /\ \A i \in UnchangedUpdateSubjects : UpdatesOf(i) = {}
    /\ \A i \in 1..Len(batch) :
           UpdatesOf(i) # {} =>
               subject[i].diffColumns > 0 \/ subject[i].diffRelations > 0

\* a successful call went through the update phase with an unchanged update
\* subject whose metadata has a version and an update-date column
C27_Witness ==
    /\ pc = "resolved"
    /\ \E i \in UnchangedUpdateSubjects :
           /\ Metadata(batch[i].kind).hasVersionColumn
           /\ Metadata(batch[i].kind).hasUpdateDateColumn
    /\ \E i \in 1..Len(batch) : UpdatesOf(i) # {}

\* C28: an update statement of a subject with an update-date column writes
\* the subject's date, the value the entity's update-date property gets.
C28_UpdateDateIsSubjectDate ==
    \A i \in 1..Len(batch) :
        Metadata(batch[i].kind).hasUpdateDateColumn =>
            \A n \in UpdatesOf(i) : calls[n].vals.updateDate = batch[i].date

\* the update statements of the relation-update phase issued for subject i
RelationUpdatesOf(i) ==
    { n \in Issued("update") : calls[n].phase = 6 /\ calls[n].subj = i }

\* the changed update subjects whose entity has no key
UpdateSubjectsWithoutKey ==
    { i \in 1..Len(batch) :
        /\ batch[i].mustBeUpdated
        /\ recompute[i].diffColumns + recompute[i].diffRelations > 0
        /\ batch[i].id = 0 }

\* the relation-update subjects whose database snapshot has no key
RelationUpdateSubjectsWithoutKey ==
    { i \in 1..Len(batch) : batch[i].hasRelationUpdates /\ batch[i].dbId = 0 }

\* C29: no update statement is issued for a subject whose identity map
\* cannot be derived; the call does not get past the phase of such a
\* subject and never commits; unless it failed before, it fails with the
\* internal error, and then the transaction is rolled back exactly when the
\* call began it.
C29_NoIdentityMapFailsBatch ==
    /\ \A i \in UpdateSubjectsWithoutKey : UpdatesOf(i) = {}
    /\ \A i \in RelationUpdateSubjectsWithoutKey : RelationUpdatesOf(i) = {}
    /\ UpdateSubjectsWithoutKey # {} =>
           pc \notin {"update", "updateRelations", "remove", "commit", "after", "resolved"}
    /\ RelationUpdateSubjectsWithoutKey # {} =>
           pc \notin {"updateRelations", "remove", "commit", "after", "resolved"}
    /\ UpdateSubjectsWithoutKey \cup RelationUpdateSubjectsWithoutKey # {} =>
           /\ Issued("commitTransaction") = {}
           /\ Issued("broadcastAfterEventsForAll") = {}
           /\ pc \in {"rollback", "rejected"} =>
                  \/ Failure \in {"internal", "validate", "provide", "begin",
                                  "before", "cascade"}
                  \/ /\ Failure = "transport"
                     /\ \E n \in failed : calls[n].phase \in 1..5
    /\ (pc \in {"rollback", "rejected"} /\ Failure = "internal") =>
           /\ UpdateSubjectsWithoutKey \cup RelationUpdateSubjectsWithoutKey # {}
           /\ Issued("rollbackTransaction") # {} <=> Issued("beginTransaction") # {}

\* the call began the transaction, failed with the internal error in the
\* relation-update phase and rolled back
C29_Witness ==
    /\ pc = "rejected"
    /\ error = "internal"
    /\ RelationUpdateSubjectsWithoutKey # {}
    /\ UpdateSubjectsWithoutKey = {}
    /\ Issued("beginTransaction") # {}
    /\ Issued("rollbackTransaction") # {}

\* the levels the closure-table phase returned for subject i, as written by
\* the update of the level column that follows each closure-table insert
LevelsReturnedFor(i) ==
    { calls[n].vals.level :
        n \in { m \in Issued("update") : calls[m].phase = 2 /\ calls[m].subj = i } }

\* C30: after a successful call every inserted entity carries the id
\* generated for it, version 1 when it has a version column, the subject's
\* date as create date and update date, and the tree level the
\* closure-table phase returned.
C30_InsertedEntitiesMaterialized ==
    pc = "resolved" =>
        \A i \in 1..Len(batch) :
            batch[i].mustBeInserted =>
                LET metadata == Metadata(batch[i].kind)
                IN  /\ entity[i].id # 0
                    /\ entity[i].id = subject[i].newlyGeneratedId
                    /\ entity[i].id \in IdsReturnedFor(i)
                    /\ metadata.hasVersionColumn => entity[i].version = 1
                    /\ metadata.hasCreateDateColumn => entity[i].createDate = batch[i].date
                    /\ metadata.hasUpdateDateColumn => entity[i].updateDate = batch[i].date
                    /\ metadata.hasTreeLevelColumn =>
                           /\ entity[i].level = subject[i].treeLevel
                           /\ LevelsReturnedFor(i) = {entity[i].level}

\* a successful call inserted a Category below another Category and wrote
\* the id and the level onto it
C30_Witness ==
    /\ pc = "resolved"
    /\ \E j \in 1..Len(batch) :
           /\ batch[j].mustBeInserted /\ batch[j].kind = "Category"
           /\ batch[j].id = 0 /\ entity[j].id # 0
           /\ batch[j].level = 0 /\ entity[j].level > 1

\* the remove subjects with and without an entity
RemovedWithEntity ==
    { i \in 1..Len(batch) : batch[i].mustBeRemoved /\ batch[i].hasEntity }
RemovedWithoutEntity ==
    { i \in 1..Len(batch) : batch[i].mustBeRemoved /\ ~batch[i].hasEntity }

\* C31: after a successful call the entity of every remove subject has lost
\* its key; at no time does an entity that is no remove subject lose a key
\* it carries, and nothing is written for a remove subject without entity.
C31_OnlyRemovedEntitiesLoseTheirKey ==
    /\ pc = "resolved" => \A i \in RemovedWithEntity : entity[i].id = 0
    /\ \A i \in 1..Len(batch) :
           (~batch[i].mustBeRemoved /\ batch[i].id # 0) => entity[i].id # 0
    /\ \A i \in RemovedWithoutEntity : entity[i] = EntitiesAsHandedIn[i]
    /\ Issued("broadcastAfterEventsForAll") = {} => entity = EntitiesAsHandedIn

\* a successful call removed a loaded entity and a row known from the
\* database only
C31_Witness ==
    /\ pc = "resolved"
    /\ \E i \in RemovedWithEntity : batch[i].id # 0 /\ entity[i].id = 0
    /\ RemovedWithoutEntity # {}
    /\ Cardinality(RemoveDeletes) >= 2

\* C32: one call never issues both commitTransaction and
\* rollbackTransaction.
C32_CommitAndRollbackExclusive ==
    Issued("commitTransaction") = {} \/ Issued("rollbackTransaction") = {}

\* C33: rollbackTransaction is issued only by a call whose own
\* beginTransaction succeeded, after which the before-events were broadcast;
\* a failure to obtain the query runner or to begin is the error surfaced.
C33_RollbackOnlyAfterSuccessfulBegin ==
    /\ Issued("rollbackTransaction") # {} =>
           /\ Issued("beginTransaction") # {}
           /\ Issued("broadcastBeforeEventsForAll") # {}
    /\ (pc = "rejected" /\ Issued("broadcastBeforeEventsForAll") = {}
            /\ Issued("provide") # {})
           => error \in {"provide", "begin"}

\* the pairs (C, P) of new tree entities, P a new root and C its child
NewTreePairs ==
    { cp \in (1..Len(batch)) \X (1..Len(batch)) :
        /\ batch[cp[1]].mustBeInserted /\ batch[cp[1]].kind = "Category"
        /\ batch[cp[2]].mustBeInserted /\ batch[cp[2]].kind = "Category"
        /\ batch[cp[1]].rel = cp[2]
        /\ batch[cp[2]].rel = 0 /\ batch[cp[2]].inv = {} }

\* C34: after a successful call that inserted a tree parent P and its child
\* C, the closure table holds the rows (P,P), (C,C) and (P,C), and the
\* level returned for C is one more than the level returned for P.
C34_ClosureRowsOfNewPair ==
    pc = "resolved" =>
        \A cp \in NewTreePairs :
            LET c == entity[cp[1]].id
                p == entity[cp[2]].id
            IN  /\ \E r \in closureTable : r.ancestor = p /\ r.descendant = p
                /\ \E r \in closureTable : r.ancestor = c /\ r.descendant = c
                /\ \E r \in closureTable : r.ancestor = p /\ r.descendant = c
                /\ subject[cp[1]].treeLevel = subject[cp[2]].treeLevel + 1

-----------------------------------------------------------------------------
(* WebsqlQueryRunner: the transaction flag and the release flag, under any  *)
(* sequence of calls a client makes on one query runner.                   *)

MaxRunnerCalls == 4

\* one execute() call and its database while the model follows something else
ExecutorUnused ==
    /\ batch = <<>> /\ pc = "start" /\ isTransactionStartedByItself = FALSE
    /\ error = "" /\ pending = "" /\ calls = <<>> /\ inflight = {}
    /\ subject = <<>> /\ entity = <<>> /\ nextId = 1 /\ closureTable = {}
    /\ failed = {} /\ returned = {} /\ joined = FALSE /\ idWrites = <<>>

InitRunner ==
    /\ ExecutorUnused /\ NoExecutions /\ ConnectionUnused
    /\ txActive = FALSE
    /\ isReleased = FALSE
    /\ releaseCallback \in BOOLEAN
    /\ runnerCalls = <<>>
    /\ queries = 0

\* faulty variant: a transaction is begun whatever the flag says
beginTransactionReentrant ==
    IF isReleased THEN "QueryRunnerAlreadyReleasedError" ELSE "ok"

\* WebsqlQueryRunner.beginTransaction(), lines 89-95: how the call ends
beginTransactionOutcome ==
    IF isReleased THEN "QueryRunnerAlreadyReleasedError"
    ELSE IF txActive THEN "TransactionAlreadyStartedError"
    ELSE "ok"

\* commitTransaction(), lines 103-108, and rollbackTransaction(), lines
\* 117-122: how the call ends
endTransactionOutcome ==
    IF isReleased THEN "QueryRunnerAlreadyReleasedError"
    ELSE IF ~txActive THEN "TransactionNotStartedError"
    ELSE "ok"

\* faulty variant: a released runner still hands statements to the database
statementOutcomesUnreleased == {"ok", "error"}

\* query(), lines 139-140, and the same test in insert(), update(),
\* delete() and insertIntoClosureTable(): how a statement can end
statementOutcomes ==
    IF isReleased THEN {"QueryRunnerAlreadyReleasedError"} ELSE {"ok", "error"}

\* release(), lines 51-57: isReleased once release() was called
releasedByRelease == IF releaseCallback THEN TRUE ELSE isReleased

\* one call on the query runner and what it left behind
RunnerCall(method, outcome) ==
    /\ Len(runnerCalls) < MaxRunnerCalls
    /\ runnerCalls' = Append(runnerCalls,
           [ method |-> method, outcome |-> outcome,
             released |-> isReleased, releasedAfter |-> isReleased',
             active |-> txActive, activeAfter |-> txActive',
             queries |-> queries, queriesAfter |-> queries' ])
    /\ UNCHANGED <<releaseCallback, executorVars, executions, connectionVars>>

\* release(), lines 51-57; the callback's promise is the call's
WebsqlQueryRunner_release ==
    \E outcome \in (IF releaseCallback THEN {"ok", "error"} ELSE {"ok"}) :
        /\ isReleased' = releasedByRelease
        /\ UNCHANGED <<txActive, queries>>
        /\ RunnerCall("release", outcome)

\* beginTransaction(), lines 89-98
WebsqlQueryRunner_beginTransaction ==
    /\ txActive' = IF beginTransactionOutcome = "ok" THEN TRUE ELSE txActive
    /\ UNCHANGED <<isReleased, queries>>
    /\ RunnerCall("beginTransaction", beginTransactionOutcome)

\* commitTransaction(), lines 103-111
WebsqlQueryRunner_commitTransaction ==
    /\ txActive' = IF endTransactionOutcome = "ok" THEN FALSE ELSE txActive
    /\ UNCHANGED <<isReleased, queries>>
    /\ RunnerCall("commitTransaction", endTransactionOutcome)

\* rollbackTransaction(), lines 117-125
WebsqlQueryRunner_rollbackTransaction ==
    /\ txActive' = IF endTransactionOutcome = "ok" THEN FALSE ELSE txActive
    /\ UNCHANGED <<isReleased, queries>>
    /\ RunnerCall("rollbackTransaction", endTransactionOutcome)

\* a method that hands one statement to the database: query(), lines
\* 138-160, insert(), 167-193, update(), 198-209, delete(), 224-233
runStatement(method) ==
    \E outcome \in statementOutcomes :
        /\ queries' = IF outcome = "QueryRunnerAlreadyReleasedError"
                      THEN queries ELSE queries + 1
        /\ UNCHANGED <<txActive, isReleased>>
        /\ RunnerCall(method, outcome)

WebsqlQueryRunner_query == runStatement("query")
WebsqlQueryRunner_insert == runStatement("insert")
WebsqlQueryRunner_update == runStatement("update")
WebsqlQueryRunner_delete == runStatement("delete")

\* insertIntoClosureTable(), lines 240-257: the insert, then the select of
\* the level
WebsqlQueryRunner_insertIntoClosureTable ==
    \E first \in statementOutcomes : \E second \in {"ok", "error"} :
        /\ queries' = IF first = "QueryRunnerAlreadyReleasedError" THEN queries
                      ELSE IF first = "error" THEN queries + 1
                      ELSE queries + 2
        /\ UNCHANGED <<txActive, isReleased>>
        /\ RunnerCall("insertIntoClosureTable", IF first = "ok" THEN second ELSE first)

NextRunner ==
    \/ WebsqlQueryRunner_release
    \/ WebsqlQueryRunner_beginTransaction
    \/ WebsqlQueryRunner_commitTransaction
    \/ WebsqlQueryRunner_rollbackTransaction
    \/ WebsqlQueryRunner_query
    \/ WebsqlQueryRunner_insert
    \/ WebsqlQueryRunner_update
    \/ WebsqlQueryRunner_delete
    \/ WebsqlQueryRunner_insertIntoClosureTable

SpecRunner == InitRunner /\ [][NextRunner]_vars

\* the calls that move the transaction flag
TransactionMethods == {"beginTransaction", "commitTransaction", "rollbackTransaction"}

\* the successful transitions made so far, by position in runnerCalls
Transitions ==
    { k \in 1..Len(runnerCalls) :
        runnerCalls[k].method \in TransactionMethods /\ runnerCalls[k].outcome = "ok" }

\* C37: on a runner that is not released, beginTransaction succeeds exactly
\* when no transaction is active and makes it active, failing with
\* TransactionAlreadyStartedError otherwise; commitTransaction and
\* rollbackTransaction succeed exactly when one is active and end it,
\* failing with TransactionNotStartedError otherwise; no failing call and no
\* other method changes the flag, which is TRUE exactly when the last
\* successful transition was a beginTransaction.
C37_TwoStateTransactionMachine ==
    /\ \A k \in 1..Len(runnerCalls) :
           LET c == runnerCalls[k]
           IN  /\ (c.method = "beginTransaction" /\ ~c.released) =>
                      /\ c.outcome = IF c.active THEN "TransactionAlreadyStartedError"
                                                 ELSE "ok"
                      /\ c.activeAfter = TRUE
               /\ (c.method \in {"commitTransaction", "rollbackTransaction"}
                       /\ ~c.released) =>
                      /\ c.outcome = IF c.active THEN "ok"
                                                 ELSE "TransactionNotStartedError"
                      /\ c.activeAfter = FALSE
               /\ (c.outcome # "ok" \/ c.method \notin TransactionMethods) =>
                      c.activeAfter = c.active
    /\ txActive = (Transitions # {}
                   /\ runnerCalls[Max(Transitions)].method = "beginTransaction")

\* a transaction was begun, a second begin failed, the transaction was
\* committed and a rollback then failed
C37_Witness ==
    /\ Len(runnerCalls) = 4
    /\ runnerCalls[1].method = "beginTransaction" /\ runnerCalls[1].outcome = "ok"
    /\ runnerCalls[2].outcome = "TransactionAlreadyStartedError"
    /\ runnerCalls[3].method = "commitTransaction" /\ runnerCalls[3].outcome = "ok"
    /\ runnerCalls[4].method = "rollbackTransaction"
    /\ runnerCalls[4].outcome = "TransactionNotStartedError"
    /\ ~txActive

\* the release() calls made so far, by position in runnerCalls
Releases == { k \in 1..Len(runnerCalls) : runnerCalls[k].method = "release" }

\* C38: the runner is released exactly when release() was called on a
\* connection with a release callback; every other call made on a released
\* runner fails with QueryRunnerAlreadyReleasedError and leaves the
\* transaction flag and the database untouched; without release callback
\* release() changes nothing and later calls are served.
C38_ReleasedRunnerRefusesEveryCall ==
    /\ isReleased <=> (releaseCallback /\ Releases # {})
    /\ \A k \in 1..Len(runnerCalls) :
           LET c == runnerCalls[k]
           IN  /\ c.released <=> (releaseCallback /\ \E j \in Releases : j < k)
               /\ (c.released /\ c.method # "release") =>
                      /\ c.outcome = "QueryRunnerAlreadyReleasedError"
                      /\ c.activeAfter = c.active
                      /\ c.queriesAfter = c.queries
               /\ (~c.released /\ c.method # "release") =>
                      c.outcome # "QueryRunnerAlreadyReleasedError"
               /\ c.method = "release" =>
                      /\ c.releasedAfter = (c.released \/ releaseCallback)
                      /\ c.activeAfter = c.active
                      /\ c.queriesAfter = c.queries

\* a runner with an open transaction was released and then refused a
\* commit, a statement and a closure-table insert
C38_Witness ==
    /\ Len(runnerCalls) >= 4
    /\ runnerCalls[1].method = "beginTransaction" /\ runnerCalls[1].outcome = "ok"
    /\ runnerCalls[2].method = "release"
    /\ \E k \in 3..Len(runnerCalls) : runnerCalls[k].method = "commitTransaction"
    /\ \E k \in 3..Len(runnerCalls) : runnerCalls[k].method = "insert"
    /\ isReleased /\ txActive /\ queries = 0

-----------------------------------------------------------------------------
(* Overlapping execute() calls on one query runner. Each call runs from one *)
(* await to the next without interruption; between two awaits of one call  *)
(* the other call may run. The runner is a WebsqlQueryRunner, whose         *)
(* beginTransaction(), commitTransaction() and rollbackTransaction() test   *)
(* and assign the flag within the call itself.                              *)

MaxExecutions == 2

Executions == 1..MaxExecutions

\* the seven execute...Operations() awaited in turn, lines 115-121
LastPhase == 7

\* a call of execute() that has not been made yet
NotCalled ==
    [ pc |-> "start", isTransactionStartedByItself |-> FALSE, joined |-> FALSE,
      phase |-> 0, error |-> "" ]

InitShared ==
    /\ ExecutorUnused /\ RunnerUnused /\ ConnectionUnused
    /\ txActive \in BOOLEAN
    /\ executions = [i \in Executions |-> NotCalled]

\* everything the overlapping calls leave alone
outsideExecutions == <<executorVars, runnerVars, connectionVars>>

\* calls that are between their first and their last statement of execute()
Running ==
    {i \in Executions : executions[i].pc \notin {"start", "resolved", "rejected"}}

\* the catch block, lines 136-146: a call that set its flag calls
\* rollbackTransaction() and awaits it, whatever that call does
catch(i, err) ==
    IF executions[i].isTransactionStartedByItself
    THEN /\ txActive' = (IF endTransactionOutcome = "ok" THEN FALSE ELSE txActive)
         /\ executions' = [executions EXCEPT ![i].pc = "rollback", ![i].error = err]
    ELSE /\ executions' = [executions EXCEPT ![i].pc = "rejected", ![i].error = err]
         /\ UNCHANGED txActive

\* execute() up to its first await, lines 100-104
sharedExecute(i) ==
    /\ executions[i].pc = "start"
    /\ executions' = [executions EXCEPT ![i].pc = "provide"]
    /\ UNCHANGED txActive
    /\ UNCHANGED outsideExecutions

\* lines 104-111: the runner arrived; the flag is read, and a call that
\* finds no transaction sets its own flag and calls beginTransaction()
sharedProvideResolved(i) ==
    /\ executions[i].pc = "provide"
    /\ IF ~isTransactionActive
       THEN IF beginTransactionOutcome = "ok"
            THEN /\ txActive' = TRUE
                 /\ executions' = [executions EXCEPT
                        ![i].pc = "begin",
                        ![i].isTransactionStartedByItself = TRUE]
            ELSE /\ UNCHANGED txActive
                 /\ executions' = [executions EXCEPT
                        ![i].pc = "begin",
                        ![i].isTransactionStartedByItself = TRUE,
                        ![i].error = beginTransactionOutcome]
       ELSE /\ UNCHANGED txActive
            /\ executions' = [executions EXCEPT
                   ![i].pc = "before", ![i].joined = TRUE]
    /\ UNCHANGED outsideExecutions

\* line 104 rejected: the catch block with the flag still unset
sharedProvideRejected(i) ==
    /\ executions[i].pc = "provide"
    /\ catch(i, "error")
    /\ UNCHANGED outsideExecutions

\* line 108 settled: line 111 is called, or the catch block is entered with
\* the error beginTransaction() threw
sharedBeginSettled(i) ==
    /\ executions[i].pc = "begin"
    /\ IF executions[i].error = ""
       THEN /\ executions' = [executions EXCEPT ![i].pc = "before"]
            /\ UNCHANGED txActive
       ELSE catch(i, executions[i].error)
    /\ UNCHANGED outsideExecutions

\* line 111 resolved, lines 114-115: the first phase starts
sharedBroadcastBeforeResolved(i) ==
    /\ executions[i].pc = "before"
    /\ executions' = [executions EXCEPT ![i].pc = "phase", ![i].phase = 1]
    /\ UNCHANGED txActive
    /\ UNCHANGED outsideExecutions

\* one of lines 115-120 resolved: the next phase starts
sharedPhaseResolved(i) ==
    /\ executions[i].pc = "phase"
    /\ executions[i].phase < LastPhase
    /\ executions' = [executions EXCEPT ![i].phase = @ + 1]
    /\ UNCHANGED txActive
    /\ UNCHANGED outsideExecutions

\* line 121 resolved, lines 124-127: a call that set its flag calls
\* commitTransaction(); the others go on to line 127
sharedLastPhaseResolved(i) ==
    /\ executions[i].pc = "phase"
    /\ executions[i].phase = LastPhase
    /\ IF executions[i].isTransactionStartedByItself
       THEN IF endTransactionOutcome = "ok"
            THEN /\ txActive' = FALSE
                 /\ executions' = [executions EXCEPT ![i].pc = "commit"]
            ELSE /\ UNCHANGED txActive
                 /\ executions' = [executions EXCEPT
                        ![i].pc = "commitFailed",
                        ![i].error = endTransactionOutcome]
       ELSE /\ UNCHANGED txActive
            /\ executions' = [executions EXCEPT ![i].pc = "after"]
    /\ UNCHANGED outsideExecutions

\* line 125 resolved, lines 127-131
sharedCommitResolved(i) ==
    /\ executions[i].pc = "commit"
    /\ executions' = [executions EXCEPT ![i].pc = "after"]
    /\ UNCHANGED txActive
    /\ UNCHANGED outsideExecutions

\* line 125 rejected with the error commitTransaction() threw
sharedCommitRejected(i) ==
    /\ executions[i].pc = "commitFailed"
    /\ catch(i, executions[i].error)
    /\ UNCHANGED outsideExecutions

\* line 131 resolved: execute() resolves
sharedBroadcastAfterResolved(i) ==
    /\ executions[i].pc = "after"
    /\ executions' = [executions EXCEPT ![i].pc = "resolved"]
    /\ UNCHANGED txActive
    /\ UNCHANGED outsideExecutions

\* a broadcast or a phase rejected, lines 111-131: the catch block
sharedAwaitRejected(i) ==
    /\ executions[i].pc \in {"before", "phase", "after"}
    /\ catch(i, "error")
    /\ UNCHANGED outsideExecutions

\* line 139 settled, line 145: execute() rejects with the first error
sharedRollbackSettled(i) ==
    /\ executions[i].pc = "rollback"
    /\ executions' = [executions EXCEPT ![i].pc = "rejected"]
    /\ UNCHANGED txActive
    /\ UNCHANGED outsideExecutions

NextShared ==
    \/ \E i \in Executions : sharedExecute(i)
    \/ \E i \in Executions : sharedProvideResolved(i)
    \/ \E i \in Executions : sharedProvideRejected(i)
    \/ \E i \in Executions : sharedBeginSettled(i)
    \/ \E i \in Executions : sharedBroadcastBeforeResolved(i)
    \/ \E i \in Executions : sharedPhaseResolved(i)
    \/ \E i \in Executions : sharedLastPhaseResolved(i)
    \/ \E i \in Executions : sharedCommitResolved(i)
    \/ \E i \in Executions : sharedCommitRejected(i)
    \/ \E i \in Executions : sharedBroadcastAfterResolved(i)
    \/ \E i \in Executions : sharedAwaitRejected(i)
    \/ \E i \in Executions : sharedRollbackSettled(i)

SpecShared == InitShared /\ [][NextShared]_vars

\* calls that would end the transaction: their flag is set and line 124 or
\* line 137 may still read it
Owners ==
    {i \in Running : /\ executions[i].isTransactionStartedByItself
                     /\ executions[i].pc # "rollback"}

\* calls that found the transaction open and still have a broadcast or a
\* phase to run
JoinedAtWork ==
    {i \in Running : executions[i].joined /\ executions[i].pc \in {"before", "phase"}}

\* C35: however overlapping execute() calls on one query runner interleave,
\* at most one call at a time has its ownership flag set, and no call ever
\* gets TransactionAlreadyStartedError from beginTransaction().
C35_AtMostOneOwner ==
    /\ Cardinality(Owners) <= 1
    /\ \A i \in Executions : executions[i].error # "TransactionAlreadyStartedError"

\* C36: while a call that joined a transaction still has a broadcast or a
\* phase to run, the transaction is active: the call that opened it has
\* neither committed nor rolled back.
C36_OwnerOutlastsJoinedCalls ==
    JoinedAtWork # {} => txActive

-----------------------------------------------------------------------------
(* Connection: connect() and close(), called one after the other, on a      *)
(* driver whose connect() and disconnect() may reject and with entity       *)
(* classes whose metadata may fail to build.                                *)

MaxConnectionCalls == 4

InitConnection ==
    /\ ExecutorUnused /\ RunnerUnused /\ NoExecutions
    /\ txActive = FALSE
    /\ ConnectionUnused

\* everything connect() and close() leave alone
outsideConnection == <<executorVars, txActive, runnerVars, executions>>

\* a call of connect() or close() has returned: what it found and left
ConnectionCall(method, outcome, connected, built) ==
    /\ connectionCalls' = Append(connectionCalls,
           [ method |-> method, outcome |-> outcome, built |-> built,
             connected |-> connected, connectedAfter |-> isConnected',
             driverAfter |-> driverConnected' ])
    /\ connecting' = ""

\* connect(), lines 178-183: refused on a connected connection, else
\* driver.connect() is called and awaited
Connection_connect ==
    /\ connecting = ""
    /\ Len(connectionCalls) < MaxConnectionCalls
    /\ IF isConnected
       THEN /\ UNCHANGED <<isConnected, driverConnected>>
            /\ ConnectionCall("connect", "CannotConnectAlreadyConnectedError",
                              isConnected, "none")
       ELSE /\ connecting' = "driver.connect"
            /\ UNCHANGED <<isConnected, driverConnected, connectionCalls>>
    /\ UNCHANGED outsideConnection

\* line 183 rejected: connect() rejects with the driver's error
driverConnectRejected ==
    /\ connecting = "driver.connect"
    /\ UNCHANGED <<isConnected, driverConnected>>
    /\ ConnectionCall("connect", "driverError", FALSE, "none")
    /\ UNCHANGED outsideConnection

\* line 183 resolved, lines 186-200: the flag is set and the metadata is
\* built; if that throws, close() is called (lines 209-212: the flag is
\* set, so driver.disconnect() is called) and awaited
driverConnectResolved ==
    /\ connecting = "driver.connect"
    /\ driverConnected' = TRUE
    /\ isConnected' = TRUE
    /\ \E built \in BOOLEAN :
           IF built
           THEN ConnectionCall("connect", "ok", FALSE, "ok")
           ELSE /\ connecting' = "close"
                /\ UNCHANGED connectionCalls
    /\ UNCHANGED outsideConnection

\* line 197 resolved (lines 212-213), line 198: the build error is rethrown
cleanupResolved ==
    /\ connecting = "close"
    /\ driverConnected' = FALSE
    /\ isConnected' = FALSE
    /\ ConnectionCall("connect", "buildError", FALSE, "failed")
    /\ UNCHANGED outsideConnection

\* line 197 rejected because line 212 did: connect() rejects with the
\* driver's error, line 213 and line 198 are not reached
cleanupRejected ==
    /\ connecting = "close"
    /\ UNCHANGED <<isConnected, driverConnected>>
    /\ ConnectionCall("connect", "driverError", FALSE, "failed")
    /\ UNCHANGED outsideConnection

\* close(), lines 208-212: refused on a connection that is not connected,
\* else driver.disconnect() is called and awaited
Connection_close ==
    /\ connecting = ""
    /\ Len(connectionCalls) < MaxConnectionCalls
    /\ IF ~isConnected
       THEN /\ UNCHANGED <<isConnected, driverConnected>>
            /\ ConnectionCall("close", "CannotCloseNotConnectedError",
                              isConnected, "none")
       ELSE /\ connecting' = "driver.disconnect"
            /\ UNCHANGED <<isConnected, driverConnected, connectionCalls>>
    /\ UNCHANGED outsideConnection

\* line 212 resolved, line 213
driverDisconnectResolved ==
    /\ connecting = "driver.disconnect"
    /\ driverConnected' = FALSE
    /\ isConnected' = FALSE
    /\ ConnectionCall("close", "ok", TRUE, "none")
    /\ UNCHANGED outsideConnection

\* line 212 rejected: close() rejects with the driver's error
driverDisconnectRejected ==
    /\ connecting = "driver.disconnect"
    /\ UNCHANGED <<isConnected, driverConnected>>
    /\ ConnectionCall("close", "driverError", TRUE, "none")
    /\ UNCHANGED outsideConnection

NextConnection ==
    \/ Connection_connect
    \/ driverConnectRejected
    \/ driverConnectResolved
    \/ cleanupResolved
    \/ cleanupRejected
    \/ Connection_close
    \/ driverDisconnectResolved
    \/ driverDisconnectRejected

SpecConnection == InitConnection /\ [][NextConnection]_vars

\* the last call that returned normally, 0 if none did
LastSuccessfulCall ==
    LET done == {k \in 1..Len(connectionCalls) : connectionCalls[k].outcome = "ok"}
    IN  IF done = {} THEN 0 ELSE CHOOSE k \in done : \A j \in done : j <= k

\* C39: connect() on a connected connection fails with
\* CannotConnectAlreadyConnectedError, close() on a connection that is not
\* connected fails with CannotCloseNotConnectedError, both leave isConnected
\* as it was, and between calls isConnected is true exactly when the last
\* call that succeeded was a connect().
C39_TwoStateConnection ==
    /\ \A k \in 1..Len(connectionCalls) :
           LET c == connectionCalls[k]
           IN  /\ (c.method = "connect" /\ c.connected) =>
                      /\ c.outcome = "CannotConnectAlreadyConnectedError"
                      /\ c.connectedAfter
               /\ (c.method = "close" /\ ~c.connected) =>
                      /\ c.outcome = "CannotCloseNotConnectedError"
                      /\ ~c.connectedAfter
    /\ connecting = "" =>
           (isConnected <=>
               /\ LastSuccessfulCall # 0
               /\ connectionCalls[LastSuccessfulCall].method = "connect")

\* C40: a connect() whose metadata failed to build has disconnected the
\* driver and cleared isConnected when it rejects, it rejects with the build
\* error, and no failed connect() leaves the connection connected.
C40_FailedBuildClosesConnection ==
    \A k \in 1..Len(connectionCalls) :
        LET c == connectionCalls[k]
        IN  /\ (c.method = "connect" /\ c.built = "failed") =>
                   /\ c.outcome = "buildError"
                   /\ ~c.connectedAfter
                   /\ ~c.driverAfter
            /\ (c.method = "connect" /\ ~c.connected /\ c.outcome # "ok") =>
                   ~c.connectedAfter

====
